---- MODULE Spec2Model ----
(***************************************************************************)
(* The document question-answering pipeline of backend/processors.py and   *)
(* backend/agent.py: DocumentProcessor.process_document with its format    *)
(* extractors, answer_question, the two-node workflow of build_qa_graph    *)
(* and DocumentQAAgent.run.                                                *)
(***************************************************************************)
EXTENDS Integers, Sequences, FiniteSets, TLC

(***************************************************************************)
(* Strings.                                                                *)
(*                                                                         *)
(* File paths and questions are sequences of one-character strings.        *)
(* Document text and messages are sequences of pieces [c, n]: the text c   *)
(* repeated n times, no two neighbouring pieces with the same c.  Document *)
(* text uses one-character pieces only, so that an 8000-character page is  *)
(* one piece; the fixed messages of the source are one literal piece each. *)
(***************************************************************************)

Piece(c, n) == [c |-> c, n |-> n]

\* A literal of the source, as a string of one piece.
Msg(s) == <<Piece(s, 1)>>

\* s + t
Cat(s, t) ==
    IF s = <<>> THEN t
    ELSE IF t = <<>> THEN s
    ELSE IF s[Len(s)].c = t[1].c
         THEN SubSeq(s, 1, Len(s) - 1)
              \o <<Piece(t[1].c, s[Len(s)].n + t[1].n)>>
              \o SubSeq(t, 2, Len(t))
         ELSE s \o t

RECURSIVE Lit(_)
\* A sequence of characters as a string of pieces.
Lit(chars) ==
    IF chars = <<>> THEN <<>>
    ELSE Cat(Lit(SubSeq(chars, 1, Len(chars) - 1)), <<Piece(chars[Len(chars)], 1)>>)

RECURSIVE StrLen(_)
\* len(s)
StrLen(s) ==
    IF s = <<>> THEN 0
    ELSE Len(s[1].c) * s[1].n + StrLen(Tail(s))

RECURSIVE Take(_, _)
\* s[:k], for a string of one-character pieces
Take(s, k) ==
    IF s = <<>> \/ k <= 0 THEN <<>>
    ELSE IF s[1].n <= k THEN <<s[1]>> \o Take(Tail(s), k - s[1].n)
    ELSE <<Piece(s[1].c, k)>>

WhiteSpace == {" ", "\n"}

\* not s.strip(): s is empty or holds white space only
IsBlank(s) == \A i \in 1..Len(s) : s[i].c \in WhiteSpace

\* Python's truth value of `text and text.strip()`
HasText(s) == s # <<>> /\ ~IsBlank(s)

RECURSIVE Words(_)
\* ' '.join(s.split()) for a string without leading white space: every run of
\* white space becomes one space, trailing white space is dropped.
Words(s) ==
    IF s = <<>> THEN <<>>
    ELSE IF s[1].c \in WhiteSpace
         THEN IF IsBlank(s) THEN <<>>
              ELSE IF s[2].c \in WhiteSpace THEN Words(Tail(s))
              ELSE <<Piece(" ", 1)>> \o Words(Tail(s))
         ELSE <<s[1]>> \o Words(Tail(s))

RECURSIVE LStrip(_)
LStrip(s) ==
    IF s # <<>> /\ s[1].c \in WhiteSpace THEN LStrip(Tail(s)) ELSE s

\* ' '.join(text.split())
JoinSplit(s) == Words(LStrip(s))

RECURSIVE DropSpaceBefore(_, _)
\* s.replace(" " + ch, ch) for s = JoinSplit(..), where every space stands alone:
\* each space directly before ch is removed, left to right, in one pass.
DropSpaceBefore(s, ch) ==
    IF s = <<>> THEN <<>>
    ELSE IF Len(s) >= 2 /\ s[1] = Piece(" ", 1) /\ s[2].c = ch
         THEN DropSpaceBefore(Tail(s), ch)
         ELSE Cat(<<s[1]>>, DropSpaceBefore(Tail(s), ch))

(***************************************************************************)
(* Character sequences: file paths and questions.                          *)
(***************************************************************************)

UpperCase ==
    <<"A", "B", "C", "D", "E", "F", "G", "H", "I", "J", "K", "L", "M",
      "N", "O", "P", "Q", "R", "S", "T", "U", "V", "W", "X", "Y", "Z">>

LowerCase ==
    <<"a", "b", "c", "d", "e", "f", "g", "h", "i", "j", "k", "l", "m",
      "n", "o", "p", "q", "r", "s", "t", "u", "v", "w", "x", "y", "z">>

\* The lower-case letter of every upper-case letter.
LowerOf == [ch \in {UpperCase[i] : i \in 1..26} |->
               LowerCase[CHOOSE i \in 1..26 : UpperCase[i] = ch]]

LowerChar(ch) == IF ch \in DOMAIN LowerOf THEN LowerOf[ch] ELSE ch

\* A mistaken lower(): the text as it is.
lower_as_is(chars) == chars

\* str.lower()
lower(chars) == [i \in 1..Len(chars) |-> LowerChar(chars[i])]

RECURSIVE lstrip(_)
lstrip(chars) ==
    IF chars # <<>> /\ chars[1] \in WhiteSpace THEN lstrip(Tail(chars)) ELSE chars

RECURSIVE rstrip(_)
rstrip(chars) ==
    IF chars # <<>> /\ chars[Len(chars)] \in WhiteSpace
    THEN rstrip(SubSeq(chars, 1, Len(chars) - 1))
    ELSE chars

\* str.strip()
strip(chars) == rstrip(lstrip(chars))

\* p.rfind(ch): the last position of ch in p, 0 when there is none
RFind(p, ch) ==
    IF \E i \in 1..Len(p) : p[i] = ch
    THEN CHOOSE i \in 1..Len(p) : p[i] = ch /\ \A j \in (i + 1)..Len(p) : p[j] # ch
    ELSE 0

\* os.path.splitext(p)[1]: the text from the last dot of the last path
\* component on, empty when that component has no dot or only leading dots.
splitext(p) ==
    LET sepIndex == RFind(p, "/")
        dotIndex == RFind(p, ".")
    IN  IF /\ dotIndex > sepIndex
           /\ \E k \in (sepIndex + 1)..(dotIndex - 1) : p[k] # "."
        THEN SubSeq(p, dotIndex, Len(p))
        ELSE <<>>

Ext_xlsx == <<".", "x", "l", "s", "x">>
Ext_xls == <<".", "x", "l", "s">>
Ext_docx == <<".", "d", "o", "c", "x">>
Ext_doc == <<".", "d", "o", "c">>
Ext_pdf == <<".", "p", "d", "f">>
Ext_txt == <<".", "t", "x", "t">>
Ext_ppt == <<".", "p", "p", "t">>
Ext_pptx == <<".", "p", "p", "t", "x">>

\* The four phrases that ask for the raw content (agent.py).
RawContentLong ==
    <<"s", "i", "m", "p", "l", "y", " ", "r", "e", "t", "u", "r", "n", " ",
    "t", "h", "e", " ", "r", "a", "w", " ", "c", "o", "n", "t", "e", "n", "t",
    " ", "o", "f", " ", "t", "h", "i", "s", " ", "d", "o", "c", "u", "m", "e",
    "n", "t", " ", "w", "i", "t", "h", "o", "u", "t", " ", "a", "n", "y", " ",
    "a", "n", "a", "l", "y", "s", "i", "s", " ", "o", "r", " ", "s", "u", "m",
    "m", "a", "r", "y", ".">>

RawContent ==
    <<"r", "a", "w", " ", "c", "o", "n", "t", "e", "n", "t">>

ShowContent ==
    <<"s", "h", "o", "w", " ", "c", "o", "n", "t", "e", "n", "t">>

ExtractContent ==
    <<"e", "x", "t", "r", "a", "c", "t", " ", "c", "o", "n", "t", "e", "n",
    "t">>

RawContentPhrases == {RawContentLong, RawContent, ShowContent, ExtractContent}

\* The question of the upload endpoint (api.py), with its capital S.
UploadQuestion ==
    <<"S", "i", "m", "p", "l", "y", " ", "r", "e", "t", "u", "r", "n", " ",
    "t", "h", "e", " ", "r", "a", "w", " ", "c", "o", "n", "t", "e", "n", "t",
    " ", "o", "f", " ", "t", "h", "i", "s", " ", "d", "o", "c", "u", "m", "e",
    "n", "t", " ", "w", "i", "t", "h", "o", "u", "t", " ", "a", "n", "y", " ",
    "a", "n", "a", "l", "y", "s", "i", "s", " ", "o", "r", " ", "s", "u", "m",
    "m", "a", "r", "y", ".">>

\* The questions tried: the raw-content phrases as written, in other case and
\* with outer white space, a near miss (two inner spaces), an ordinary
\* question and the empty one.
Questions ==
    { UploadQuestion,
      RawContent,
      <<" ", "S", "h", "o", "w", " ", "C", "o", "n", "t", "e", "n", "t", "\n">>,
      <<"E", "X", "T", "R", "A", "C", "T", " ", "C", "O", "N", "T", "E", "N", "T">>,
      <<"r", "a", "w", " ", " ", "c", "o", "n", "t", "e", "n", "t">>,
      <<"w", "h", "y", "?">>,
      <<>> }

\* The file paths tried: the eight supported extensions, each in lower and in
\* upper or mixed case, and paths whose extension is none of them.
Paths ==
    { <<"a", ".", "x", "l", "s", "x">>,
      <<"a", ".", "x", "l", "s">>,
      <<"a", ".", "d", "o", "c", "x">>,
      <<"a", ".", "d", "o", "c">>,
      <<"a", ".", "p", "d", "f">>,
      <<"a", ".", "t", "x", "t">>,
      <<"a", ".", "p", "p", "t">>,
      <<"a", ".", "p", "p", "t", "x">>,
      <<"a", ".", "X", "L", "S", "X">>,
      <<"a", ".", "X", "l", "s">>,
      <<"a", ".", "D", "O", "C", "X">>,
      <<"a", ".", "D", "o", "c">>,
      <<"a", ".", "P", "D", "F">>,
      <<"a", ".", "T", "x", "t">>,
      <<"a", ".", "P", "P", "T">>,
      <<"a", ".", "P", "p", "t", "X">>,
      <<"a", ".", "c", "s", "v">>,
      <<"a">>,
      <<".", "p", "d", "f">>,
      <<"d", ".", "p", "d", "f", "/", "a">>,
      <<"a", ".", "p", "d", "f", ".", "b", "a", "k">>,
      <<"a", ".", "p", "d">>,
      <<"a", ".", "p", "d", "f", "x">>,
      <<"a", ".">>,
      <<"a", ".", "b", ".", "t", "x", "t">> }

(***************************************************************************)
(* Program constants and the bounds of the model.                          *)
(***************************************************************************)

\* agent.py: content[:8000] of the raw-content answer
RawContentLimit == 8000

\* agent.py: content[:25000] handed to the LLM
ContextLimit == 25000

\* agent.py: pre-processed content shorter than this is refused by run
MinContentLen == 10

\* agent.py: config = {"recursion_limit": 50}
recursion_limit == 50

\* The most pages of a PDF and the most sheets of a workbook that are tried.
MaxPages == 2

MaxSheets == 2

(***************************************************************************)
(* Values: dictionaries, documents, exceptions, results of a call.         *)
(***************************************************************************)

\* {**d, **upd}
Merge(d, upd) == upd @@ d

\* d.get(k) is truthy, for a string value
Truthy(d, k) == k \in DOMAIN d /\ d[k] # <<>>

\* Python's None: where a dictionary, where a text and where a path is expected
None == [none |-> TRUE]

NoText == <<Piece("None", 0)>>

NoPath == <<"None">>

Document(page_content, metadata) ==
    [page_content |-> page_content, metadata |-> metadata]

NoExc == [type |-> "none", msg |-> <<>>]

\* What a library call does: it returns val or raises exc.
Returns(v) == [ok |-> TRUE, val |-> v, exc |-> NoExc]

Raises(type, msg) == [ok |-> FALSE, val |-> <<>>, exc |-> [type |-> type, msg |-> msg]]

\* What an extractor or a stage does: it returns the new state or raises exc;
\* calls lists the library calls it made, in order.
Return(st, calls) == [raised |-> FALSE, state |-> st, exc |-> NoExc, calls |-> calls]

Raise(type, msg, calls) ==
    [raised |-> TRUE, state |-> <<>>, exc |-> [type |-> type, msg |-> msg], calls |-> calls]

\* sum(len(doc.page_content) for doc in documents)
RECURSIVE SumLen(_)
SumLen(documents) ==
    IF documents = <<>> THEN 0
    ELSE StrLen(documents[1].page_content) + SumLen(Tail(documents))

\* The message of a failing library call.
LibraryError == Msg("library failure")

(***************************************************************************)
(* The files and libraries a call meets.  A world says what kind of file   *)
(* is on disk and what each library call on it does; a library handed a    *)
(* file of another kind raises.                                            *)
(***************************************************************************)

\* Texts a library may return: empty, blank, short, with spaces before
\* punctuation, and long enough to meet the limits of agent.py once the
\* two line feeds of the concatenation are added.
Texts ==
    { <<>>,
      <<Piece(" ", 2)>>,
      <<Piece("a", 1)>>,
      <<Piece("a", 1), Piece(" ", 2), Piece(".", 1), Piece(" ", 1), Piece(",", 1)>>,
      <<Piece("a", MinContentLen)>>,
      <<Piece(" ", MinContentLen)>>,
      <<Piece("a", RawContentLimit - 2)>>,
      <<Piece("a", RawContentLimit - 1)>>,
      <<Piece("a", ContextLimit - 2)>>,
      <<Piece("a", ContextLimit - 1)>> }

TextOutcomes == {Returns(t) : t \in Texts} \cup {Raises("Exception", LibraryError)}

\* What page.extract_text() may give for one page.
PageTexts ==
    { <<>>,
      <<Piece(" ", 1), Piece("\n", 1)>>,
      <<Piece("a", 1)>>,
      <<Piece(" ", 1), Piece("a", 1), Piece(" ", 2), Piece(".", 2), Piece(" ", 1),
        Piece(",", 1), Piece("\n", 1)>> }

PageOutcomes == {Returns(t) : t \in PageTexts} \cup {Raises("Exception", LibraryError)}

SeqsUpTo(S, n) == UNION {[1..k -> S] : k \in 0..n}

SheetNames == {"s", "t", "u"}

\* df.to_string() of a sheet
SheetTexts == {<<Piece("a", 1)>>}

\* What pd.read_excel(sheet_name=None) may return: the sheets in the order of
\* the workbook, no two with the same name.
Workbooks ==
    { wb \in SeqsUpTo([name : SheetNames, df : SheetTexts], MaxSheets) :
        \A i, j \in 1..Len(wb) : i # j => wb[i].name # wb[j].name }

\* A workbook the alternate engine returns where the primary one returns too.
OtherWorkbook == <<[name |-> "z", df |-> <<Piece("a", 1)>>]>>

\* openpyxl is missing; or the primary engine returns and the alternate one
\* would raise or return another workbook; or the primary engine raises
\* (ImportError or another exception) and the alternate one returns or raises.
ExcelWorlds ==
    [kind : {"excel"}, openpyxl : {FALSE},
     primary : {Raises("ImportError", LibraryError)},
     alternate : {Raises("Exception", LibraryError)}]
    \cup
    [kind : {"excel"}, openpyxl : {TRUE},
     primary : {Returns(wb) : wb \in Workbooks},
     alternate : {Returns(OtherWorkbook), Raises("Exception", LibraryError)}]
    \cup
    [kind : {"excel"}, openpyxl : {TRUE},
     primary : {Raises("Exception", LibraryError), Raises("ImportError", LibraryError)},
     alternate : {Returns(wb) : wb \in Workbooks} \cup {Raises("Exception", LibraryError)}]

TextWorlds == [kind : {"docx", "doc", "text"}, text : TextOutcomes]

PdfWorlds ==
    [kind : {"pdf"}, reader : {Raises("Exception", LibraryError)},
     pages : {<<>>}, pandoc : {Raises("Exception", LibraryError)}]
    \cup
    [kind : {"pdf"}, reader : {Returns(<<>>)},
     pages : SeqsUpTo(PageOutcomes, MaxPages),
     pandoc : {Returns(<<Piece(" ", 1)>>),
               Returns(<<Piece("a", 1), Piece(" ", 1), Piece(".", 1)>>),
               Raises("Exception", LibraryError)}]

\* importlib.util.find_spec("openpyxl") is not None
find_openpyxl(w) == IF w.kind = "excel" THEN w.openpyxl ELSE TRUE

\* pd.read_excel(file_path, sheet_name=None, engine=engine)
read_excel(w, engine) ==
    IF w.kind # "excel" THEN Raises("Exception", LibraryError)
    ELSE IF engine = "openpyxl" THEN w.primary
    ELSE w.alternate

(***************************************************************************)
(* DocumentProcessor: the extractors (processors.py).                      *)
(***************************************************************************)

Extracted(state, documents, metadata, calls) ==
    Return(Merge(state, [documents |-> documents, metadata |-> metadata]), calls)

\* f"Sheet: {sheet_name}\n{df.to_string()}\n\n"
SheetContent(sheet) ==
    Cat(Cat(Cat(Lit(<<"S", "h", "e", "e", "t", ":", " ">>), Lit(<<sheet.name>>)),
            Cat(Lit(<<"\n">>), sheet.df)),
        <<Piece("\n", 2)>>)

\* A mistaken loop over the sheets: the last sheet first.
SheetDocuments_reversed(xl, file_path) ==
    [i \in 1..Len(xl) |->
        Document(SheetContent(xl[Len(xl) + 1 - i]),
                 [source |-> file_path, file_type |-> "excel",
                  sheet |-> xl[Len(xl) + 1 - i].name])]

\* One document per sheet, in the order of the workbook.
SheetDocuments(xl, file_path) ==
    [i \in 1..Len(xl) |->
        Document(SheetContent(xl[i]),
                 [source |-> file_path, file_type |-> "excel", sheet |-> xl[i].name])]

ExcelMetadata(documents) ==
    [file_type |-> "excel", document_count |-> Len(documents),
     content_length |-> SumLen(documents)]

ExcelResult(state, file_path, xl, calls) ==
    LET documents == SheetDocuments(xl, file_path)
    IN  Extracted(state, documents, ExcelMetadata(documents), calls)

\* The inner try of _process_excel: openpyxl first, on an exception other
\* than ImportError xlrd once.
ExcelEngines(state, file_path, w) ==
    IF ~find_openpyxl(w)
    THEN Raise("ValueError",
               Cat(Msg("Excel processing error: "),
                   Msg("Missing required dependency 'openpyxl' for Excel processing. Please install with: pip install openpyxl")),
               <<"find_spec:openpyxl">>)
    ELSE LET first == read_excel(w, "openpyxl")
         IN  IF first.ok
             THEN ExcelResult(state, file_path, first.val,
                              <<"find_spec:openpyxl", "read_excel:openpyxl">>)
             ELSE IF first.exc.type = "ImportError"
             THEN Raise("ValueError",
                        Cat(Msg("Excel processing error: "), first.exc.msg),
                        <<"find_spec:openpyxl", "read_excel:openpyxl">>)
             ELSE LET second == read_excel(w, "xlrd")
                      calls == <<"find_spec:openpyxl", "read_excel:openpyxl",
                                 "read_excel:xlrd">>
                  IN  IF second.ok
                      THEN ExcelResult(state, file_path, second.val, calls)
                      ELSE Raise("ValueError",
                                 Cat(Msg("Failed to process Excel file with both openpyxl and xlrd engines: "),
                                     Cat(first.exc.msg, Cat(Msg(" and "), second.exc.msg))),
                                 calls)

_process_excel(state, file_path, file_ext, w) ==
    LET r == ExcelEngines(state, file_path, w)
    IN  IF r.raised
        THEN Raise("ValueError", Cat(Msg("Error processing Excel file: "), r.exc.msg),
                   <<"_process_excel">> \o r.calls)
        ELSE Return(r.state, <<"_process_excel">> \o r.calls)

\* docx2txt.process(file_path)
docx2txt_process(w) ==
    IF w.kind = "docx" THEN w.text ELSE Raises("Exception", LibraryError)

\* pypandoc.convert_file(file_path, 'plain') on a .doc or a .pdf file
convert_file(w) ==
    IF w.kind = "doc" THEN w.text
    ELSE IF w.kind = "pdf" THEN w.pandoc
    ELSE Raises("Exception", LibraryError)

\* open(file_path, 'r', encoding='utf-8').read()
read_text(w) ==
    IF w.kind = "text" THEN w.text ELSE Raises("Exception", LibraryError)

\* One document holding the whole text of the file.
WholeText(state, file_path, text, file_type, calls) ==
    Extracted(state,
              <<Document(text, [source |-> file_path, file_type |-> file_type])>>,
              [file_type |-> file_type, document_count |-> 1,
               content_length |-> StrLen(text)],
              calls)

_process_docx(state, file_path, w) ==
    LET text == docx2txt_process(w)
        calls == <<"_process_docx", "docx2txt.process">>
    IN  IF text.ok THEN WholeText(state, file_path, text.val, "word", calls)
        ELSE Raise("ValueError",
                   Cat(Msg("Error processing Word document: "), text.exc.msg), calls)

_process_doc(state, file_path, w) ==
    LET text == convert_file(w)
        calls == <<"_process_doc", "pypandoc.convert_file">>
    IN  IF text.ok THEN WholeText(state, file_path, text.val, "word", calls)
        ELSE Raise("ValueError",
                   Cat(Msg("Error processing older Word document: "), text.exc.msg), calls)

_process_text(state, file_path, w) ==
    LET text == read_text(w)
        calls == <<"_process_text", "open.read">>
    IN  IF text.ok THEN WholeText(state, file_path, text.val, "text", calls)
        ELSE Raise("ValueError",
                   Cat(Msg("Error processing text file: "), text.exc.msg), calls)

\* PyPDF2.PdfReader(open(file_path, 'rb'))
PdfReader(w) ==
    IF w.kind = "pdf" THEN w.reader ELSE Raises("Exception", LibraryError)

\* pdf_reader.pages, each with what its extract_text() does
pdf_pages(w) == IF w.kind = "pdf" THEN w.pages ELSE <<>>

RECURSIVE PageDocuments_zero_based(_, _, _)
\* A mistaken loop over the pages: the pages are numbered from 0.
PageDocuments_zero_based(pages, i, file_path) ==
    IF i > Len(pages) THEN <<>>
    ELSE (IF HasText(pages[i].val)
          THEN <<Document(pages[i].val,
                          [source |-> file_path, file_type |-> "pdf", page |-> i - 1])>>
          ELSE <<>>)
         \o PageDocuments_zero_based(pages, i + 1, file_path)

RECURSIVE PageDocuments(_, _, _)
\* The first loop of _process_pdf from page i on: a document for every page
\* whose text is not blank, numbered from 1.
PageDocuments(pages, i, file_path) ==
    IF i > Len(pages) THEN <<>>
    ELSE (IF HasText(pages[i].val)
          THEN <<Document(pages[i].val,
                          [source |-> file_path, file_type |-> "pdf", page |-> i])>>
          ELSE <<>>)
         \o PageDocuments(pages, i + 1, file_path)

\* The clean-up of one page: white space collapsed, no space before . and ,
CleanText(text) == DropSpaceBefore(DropSpaceBefore(JoinSplit(text), "."), ",")

CleanedDocuments(documents) ==
    [i \in 1..Len(documents) |->
        Document(CleanText(documents[i].page_content), documents[i].metadata)]

PdfMetadata(cleaned_documents, num_pages) ==
    [file_type |-> "pdf", document_count |-> Len(cleaned_documents),
     page_count |-> num_pages, content_length |-> SumLen(cleaned_documents)]

\* A mistaken alternative extraction: the converter's text is dropped.
PdfFallback_dropped(file_path, w) == <<>>

\* The alternative extraction of _process_pdf: the converter's text as one
\* document when it is not blank; a failure of the converter is swallowed.
PdfFallback(file_path, w) ==
    LET text == convert_file(w)
    IN  IF text.ok /\ HasText(text.val)
        THEN <<Document(text.val,
                        [source |-> file_path, file_type |-> "pdf",
                         extraction_method |-> "pypandoc"])>>
        ELSE <<>>

\* A mistaken return of _process_pdf: the length of the texts before the clean-up.
PdfResult_raw_length(state, documents, num_pages, calls) ==
    Extracted(state, CleanedDocuments(documents), PdfMetadata(documents, num_pages), calls)

\* The return of _process_pdf: the cleaned documents and their metadata.
PdfResult(state, documents, num_pages, calls) ==
    LET cleaned_documents == CleanedDocuments(documents)
    IN  Extracted(state, cleaned_documents, PdfMetadata(cleaned_documents, num_pages), calls)

PdfError(msg, calls) ==
    Raise("ValueError", Cat(Msg("Error processing PDF file: "), msg), calls)

_process_pdf(state, file_path, w) ==
    LET reader == PdfReader(w)
        pages == pdf_pages(w)
        bad == {i \in 1..Len(pages) : ~pages[i].ok}
        read == IF bad = {} THEN Len(pages)
                ELSE CHOOSE i \in bad : \A j \in bad : i <= j
        reads == [i \in 1..read |-> "extract_text"]
        calls1 == <<"_process_pdf", "PdfReader">> \o reads
        first == PageDocuments(pages, 1, file_path)
        documents == IF first = <<>> THEN PdfFallback(file_path, w) ELSE first
        calls2 == IF first = <<>> THEN calls1 \o <<"pypandoc.convert_file">> ELSE calls1
    IN  IF ~reader.ok THEN PdfError(reader.exc.msg, <<"_process_pdf", "PdfReader">>)
        ELSE IF bad # {} THEN PdfError(pages[read].exc.msg, calls1)
        ELSE IF documents = <<>>
        THEN PdfError(Msg("No text content found in PDF. The PDF might be scanned or protected."),
                      calls2)
        ELSE PdfResult(state, documents, Len(pages), calls2)

(***************************************************************************)
(* PowerPoint: the converter is located, then three strategies are tried.  *)
(***************************************************************************)

\* How the converter binary can be found: PYPANDOC_PANDOC is set (env); or
\* pypandoc.get_pandoc_path() returns (lib = "found"), raises OSError or
\* ImportError (lib = "OSError") or raises something else (lib = "error");
\* or a well-known install path exists (known); or shutil.which finds it.
PandocSetups ==
    { [env |-> TRUE, lib |-> "found", known |-> FALSE, which |-> FALSE],
      [env |-> FALSE, lib |-> "found", known |-> FALSE, which |-> FALSE],
      [env |-> FALSE, lib |-> "OSError", known |-> TRUE, which |-> FALSE],
      [env |-> FALSE, lib |-> "OSError", known |-> FALSE, which |-> TRUE],
      [env |-> FALSE, lib |-> "OSError", known |-> FALSE, which |-> FALSE],
      [env |-> FALSE, lib |-> "error", known |-> FALSE, which |-> TRUE] }

\* pypandoc's own message when it finds no converter
NoPandocFound ==
    Msg("No pandoc was found: either install pandoc and add it to your PATH or or call pypandoc.download_pandoc(...) or install pypandoc wheels with included pandoc.")

\* What the second strategy meets: the temporary file is created or not,
\* the converter process succeeds or not, the read-back returns or raises,
\* os.unlink succeeds or not.
SubprocessOutcomes ==
    LET text == Returns(<<Piece("b", 2)>>)
    IN  { [mktemp |-> FALSE, run |-> FALSE, unlink |-> TRUE, read |-> text],
          [mktemp |-> TRUE, run |-> FALSE, unlink |-> TRUE, read |-> text],
          [mktemp |-> TRUE, run |-> TRUE, unlink |-> TRUE,
           read |-> Raises("Exception", LibraryError)] }
        \cup [mktemp : {TRUE}, run : {TRUE}, unlink : BOOLEAN,
              read : {Returns(<<Piece(" ", 1)>>), text}]

FoundByEnv == [env |-> TRUE, lib |-> "found", known |-> FALSE, which |-> FALSE]

DirectOutcomes ==
    {Returns(<<>>), Returns(<<Piece("a", 1)>>), Raises("Exception", LibraryError)}

AutoOutcomes ==
    {Returns(<<Piece("\n", 1)>>), Returns(<<Piece("c", 3)>>),
     Raises("Exception", LibraryError)}

\* The file is missing or empty; or the converter is looked for in each of
\* the ways, each strategy then returning text; or it is found at once and
\* the strategies do each of the things they can do.
PptWorlds ==
    [kind : {"ppt"}, exists : BOOLEAN, empty : {TRUE}, setup : {FoundByEnv},
     direct : {Returns(<<Piece("a", 1)>>)},
     subprocess : {[mktemp |-> TRUE, run |-> TRUE, unlink |-> TRUE,
                    read |-> Returns(<<Piece("b", 2)>>)]},
     auto : {Returns(<<Piece("c", 3)>>)}]
    \cup
    [kind : {"ppt"}, exists : {TRUE}, empty : {FALSE}, setup : PandocSetups,
     direct : {Returns(<<Piece("a", 1)>>)},
     subprocess : {[mktemp |-> TRUE, run |-> TRUE, unlink |-> TRUE,
                    read |-> Returns(<<Piece("b", 2)>>)]},
     auto : {Returns(<<Piece("c", 3)>>)}]
    \cup
    [kind : {"ppt"}, exists : {TRUE}, empty : {FALSE}, setup : {FoundByEnv},
     direct : DirectOutcomes, subprocess : SubprocessOutcomes, auto : AutoOutcomes]

Worlds == ExcelWorlds \cup TextWorlds \cup PdfWorlds \cup PptWorlds

\* os.path.exists(file_path) and os.path.getsize(file_path) == 0
path_exists(w) == IF w.kind = "ppt" THEN w.exists ELSE TRUE

is_empty_file(w) == IF w.kind = "ppt" THEN w.empty ELSE FALSE

pandoc_setup(w) == IF w.kind = "ppt" THEN w.setup ELSE FoundByEnv

\* pypandoc.convert_file(file_path, 'plain', format=...) on a presentation
convert_direct(w) ==
    IF w.kind = "ppt" THEN w.direct ELSE Raises("Exception", LibraryError)

subprocess_conversion(w) ==
    IF w.kind = "ppt" THEN w.subprocess
    ELSE [mktemp |-> TRUE, run |-> FALSE, unlink |-> TRUE,
          read |-> Raises("Exception", LibraryError)]

\* pypandoc.convert_file(file_path, 'plain') on a presentation
convert_auto(w) ==
    IF w.kind = "ppt" THEN w.auto ELSE Raises("Exception", LibraryError)

\* os.path.basename(file_path)
basename(p) == SubSeq(p, RFind(p, "/") + 1, Len(p))

\* The literal pieces of a message.
Literals(msg) == {msg[i].c : i \in 1..Len(msg)}

\* "No pandoc was found" in msg or "Pandoc is required" in msg
MentionsNoPandoc(msg) == Literals(msg) \cap Literals(NoPandocFound) # {}

\* "pptx" in msg.lower() or "powerpoint" in msg.lower()
MentionsPowerPoint(msg) ==
    Literals(msg) \cap
        { "PowerPoint file not found: ", "PowerPoint file is empty: ",
          "Error processing PowerPoint file '",
          "Failed to extract content from PowerPoint file: " } # {}

\* The search for the converter: found, not found, or an exception that is
\* neither OSError nor ImportError.
LocatePandoc(setup) ==
    IF setup.env THEN Returns(TRUE)
    ELSE IF setup.lib = "found" THEN Returns(TRUE)
    ELSE IF setup.lib = "error" THEN Raises("Exception", NoPandocFound)
    ELSE Returns(setup.known \/ setup.which)

LocateCalls(setup) ==
    IF setup.env THEN <<>>
    ELSE IF setup.lib # "OSError" THEN <<"get_pandoc_path">>
    ELSE IF setup.known THEN <<"get_pandoc_path", "os.path.exists">>
    ELSE <<"get_pandoc_path", "os.path.exists", "shutil.which">>

PowerPointDocument(state, file_path, content, method, calls) ==
    Extracted(state,
              <<Document(content, [source |-> file_path, file_type |-> "powerpoint",
                                   extraction_method |-> method])>>,
              [file_type |-> "powerpoint", document_count |-> 1,
               content_length |-> StrLen(content)],
              calls)

\* A mistaken method 2: a failed run of the converter is made again.
SubprocessStrategy_rerun(w) ==
    LET o == subprocess_conversion(w)
    IN  IF ~o.mktemp
        THEN [read |-> Raises("Exception", LibraryError),
              calls |-> <<"NamedTemporaryFile:failed">>]
        ELSE IF ~o.run
        THEN [read |-> Raises("Exception", LibraryError),
              calls |-> <<"NamedTemporaryFile", "subprocess.run:failed",
                          "subprocess.run:failed">>]
        ELSE [read |-> o.read,
              calls |-> <<"NamedTemporaryFile", "subprocess.run", "open.read">>]

\* Method 2 of _process_powerpoint: what it read (read.ok only when the
\* read-back returned) and the calls it made.
SubprocessStrategy(w) ==
    LET o == subprocess_conversion(w)
    IN  IF ~o.mktemp
        THEN [read |-> Raises("Exception", LibraryError),
              calls |-> <<"NamedTemporaryFile:failed">>]
        ELSE IF ~o.run
        THEN [read |-> Raises("Exception", LibraryError),
              calls |-> <<"NamedTemporaryFile", "subprocess.run:failed">>]
        ELSE IF ~o.read.ok
        THEN [read |-> o.read,
              calls |-> <<"NamedTemporaryFile", "subprocess.run", "open.read:failed">>]
        ELSE [read |-> o.read,
              calls |-> <<"NamedTemporaryFile", "subprocess.run", "open.read">>
                        \o (IF o.unlink THEN <<"os.unlink">> ELSE <<"os.unlink:failed">>)]

\* A mistaken chain of methods: method 2 is left out.
PowerPointStrategies_two(state, file_path, w, calls0) ==
    LET m1 == convert_direct(w)
        calls1 == calls0 \o <<"convert_file:format">>
        m3 == convert_auto(w)
        calls3 == calls1 \o <<"convert_file:auto">>
    IN  IF m1.ok /\ HasText(m1.val)
        THEN PowerPointDocument(state, file_path, m1.val, "direct_conversion", calls1)
        ELSE IF m3.ok /\ HasText(m3.val)
        THEN PowerPointDocument(state, file_path, m3.val, "auto_detection", calls3)
        ELSE Raise("RuntimeError",
                   Cat(Cat(Msg("Error processing PowerPoint file '"), Lit(basename(file_path))),
                       Msg("': Failed to extract content from PowerPoint file: ")),
                   calls3)

\* The three methods in order, after the converter was found.
PowerPointStrategies(state, file_path, w, calls0) ==
    LET m1 == convert_direct(w)
        calls1 == calls0 \o <<"convert_file:format">>
        content1 == IF m1.ok THEN m1.val ELSE <<>>
        m2 == SubprocessStrategy(w)
        calls2 == calls1 \o m2.calls
        content2 == IF m2.read.ok THEN m2.read.val ELSE content1
        m3 == convert_auto(w)
        calls3 == calls2 \o <<"convert_file:auto">>
        content3 == IF m3.ok THEN m3.val ELSE content2
    IN  IF m1.ok /\ HasText(m1.val)
        THEN PowerPointDocument(state, file_path, m1.val, "direct_conversion", calls1)
        ELSE IF m2.read.ok /\ HasText(m2.read.val)
        THEN PowerPointDocument(state, file_path, m2.read.val, "subprocess_conversion", calls2)
        ELSE IF m3.ok /\ HasText(m3.val)
        THEN PowerPointDocument(state, file_path, m3.val, "auto_detection", calls3)
        ELSE IF ~HasText(content3)
        THEN Raise("RuntimeError",
                   Cat(Cat(Msg("Error processing PowerPoint file '"), Lit(basename(file_path))),
                       Cat(Cat(Msg("': "),
                               Cat(Cat(Msg("Failed to extract content from PowerPoint file: "),
                                       Lit(file_path)),
                                   Msg(". The file may be empty, corrupted, or not a valid PowerPoint file."))),
                           Msg(". Please ensure Pandoc is correctly installed and the file is not corrupted."))),
                   calls3)
        ELSE PowerPointDocument(state, file_path, content3, "fallback", calls3)

\* The body of the outer try of _process_powerpoint.
PowerPointBody(state, file_path, w) ==
    LET located == LocatePandoc(pandoc_setup(w))
        calls0 == <<"os.path.exists">>
        calls1 == <<"os.path.exists", "os.path.getsize">>
        calls2 == calls1 \o LocateCalls(pandoc_setup(w))
    IN  IF ~path_exists(w)
        THEN Raise("ValueError", Cat(Msg("PowerPoint file not found: "), Lit(file_path)), calls0)
        ELSE IF is_empty_file(w)
        THEN Raise("ValueError", Cat(Msg("PowerPoint file is empty: "), Lit(file_path)), calls1)
        ELSE IF ~located.ok
        THEN Raise(located.exc.type, located.exc.msg, calls2)
        ELSE IF ~located.val
        THEN Raise("RuntimeError",
                   Msg("Pandoc not found. Please install Pandoc from https://pandoc.org/installing.html or run the add_pandoc_to_path.bat script (on Windows) to add it to your PATH."),
                   calls2)
        ELSE PowerPointStrategies(state, file_path, w, calls2)

_process_powerpoint(state, file_path, w) ==
    LET r == PowerPointBody(state, file_path, w)
        calls == <<"_process_powerpoint">> \o r.calls
    IN  IF ~r.raised THEN Return(r.state, calls)
        ELSE IF MentionsNoPandoc(r.exc.msg)
        THEN Raise("ValueError",
                   Msg("Pandoc is required for PowerPoint processing but was not found on the system. Please install Pandoc from https://pandoc.org/installing.html"),
                   calls)
        ELSE IF MentionsPowerPoint(r.exc.msg)
        THEN Raise("ValueError",
                   Cat(Msg("Error processing PowerPoint file: "), r.exc.msg), calls)
        ELSE Raise("ValueError",
                   Cat(Cat(Msg("Error processing PowerPoint file "), Lit(file_path)),
                       Cat(Msg(": "), r.exc.msg)),
                   calls)

(***************************************************************************)
(* DocumentProcessor.process_document (processors.py).                     *)
(***************************************************************************)

\* The pre-processed text as the one document of the state.
PreProcessed(state) ==
    LET text == state["pre_processed_content"]
    IN  Extracted(state,
                  <<Document(text, [source |-> "pre_processed", file_type |-> "text"])>>,
                  [file_type |-> "text", document_count |-> 1,
                   content_length |-> StrLen(text)],
                  <<>>)

\* A mistaken dispatch: a file of any other extension is read as text.
Dispatch_default_text(state, file_path, w) ==
    LET file_ext == lower(splitext(file_path))
    IN  IF file_ext \in {Ext_xlsx, Ext_xls} THEN _process_excel(state, file_path, file_ext, w)
        ELSE IF file_ext \in {Ext_docx} THEN _process_docx(state, file_path, w)
        ELSE IF file_ext \in {Ext_doc} THEN _process_doc(state, file_path, w)
        ELSE IF file_ext = Ext_pdf THEN _process_pdf(state, file_path, w)
        ELSE IF file_ext \in {Ext_ppt, Ext_pptx} THEN _process_powerpoint(state, file_path, w)
        ELSE _process_text(state, file_path, w)

\* The choice of the extractor by the extension of the file.
Dispatch(state, file_path, w) ==
    LET file_ext == lower(splitext(file_path))
    IN  IF file_ext \in {Ext_xlsx, Ext_xls} THEN _process_excel(state, file_path, file_ext, w)
        ELSE IF file_ext \in {Ext_docx} THEN _process_docx(state, file_path, w)
        ELSE IF file_ext \in {Ext_doc} THEN _process_doc(state, file_path, w)
        ELSE IF file_ext = Ext_pdf THEN _process_pdf(state, file_path, w)
        ELSE IF file_ext = Ext_txt THEN _process_text(state, file_path, w)
        ELSE IF file_ext \in {Ext_ppt, Ext_pptx} THEN _process_powerpoint(state, file_path, w)
        ELSE Raise("ValueError", Cat(Msg("Unsupported file type: "), Lit(file_ext)), <<>>)

\* A mistaken body: the file path is looked at before the pre-processed text.
ProcessBody_path_first(state, w) ==
    IF Truthy(state, "file_path") THEN Dispatch(state, state["file_path"], w)
    ELSE IF Truthy(state, "pre_processed_content") THEN PreProcessed(state)
    ELSE Raise("ValueError", Msg("No file path or pre-processed content provided"), <<>>)

\* The body of the try of process_document.
ProcessBody(state, w) ==
    IF Truthy(state, "pre_processed_content") THEN PreProcessed(state)
    ELSE IF ~Truthy(state, "file_path")
    THEN Raise("ValueError", Msg("No file path or pre-processed content provided"), <<>>)
    ELSE Dispatch(state, state["file_path"], w)

\* A mistaken process_document: only the dispatcher's own errors are caught,
\* an exception of an extractor passes to the caller.
process_document_own_errors(state, w) ==
    LET r == ProcessBody(state, w)
    IN  IF r.raised /\ r.calls = <<>>
        THEN Return(Merge(state, [error |-> Cat(Msg("Error processing document: "), r.exc.msg)]),
                    r.calls)
        ELSE r

\* A mistaken process_document: on failure the error alone is returned,
\* not merged into the state.
process_document_error_alone(state, w) ==
    LET r == ProcessBody(state, w)
    IN  IF r.raised
        THEN Return([error |-> Cat(Msg("Error processing document: "), r.exc.msg)], r.calls)
        ELSE r

\* except Exception as e: return {**state, "error": ...}
process_document(state, w) ==
    LET r == ProcessBody(state, w)
    IN  IF r.raised
        THEN Return(Merge(state, [error |-> Cat(Msg("Error processing document: "), r.exc.msg)]),
                    r.calls)
        ELSE r

(***************************************************************************)
(* answer_question (agent.py).                                             *)
(***************************************************************************)

\* What the LLM client does: the construction ChatGroq(..) and the call
\* chain.invoke(..) each return or raise; invoke returns response.content.
LLMErrors ==
    { Msg("Connection error."),
      Msg("No module named 'openpyxl' (Excel support)"),
      Msg("xlrd cannot open this Excel file"),
      Msg("bad Excel data"),
      Msg("pandoc failed on the PowerPoint file"),
      Msg("bad PowerPoint data") }

LLMWorlds ==
    [construct : {Returns(TRUE)},
     invoke : {Returns(<<>>), Returns(Msg("The answer."))}
              \cup {Raises("Exception", e) : e \in LLMErrors}]
    \cup [construct : {Raises("Exception", Msg("The api_key client option must be set")),
                        Raises("Exception", LibraryError)},
          invoke : {Returns(Msg("The answer."))}]

\* The words of answer_question's diagnosis that a literal holds, in any case.
Keywords(c) ==
    CASE c = "No module named 'openpyxl' (Excel support)" -> {"openpyxl", "excel"}
      [] c = "xlrd cannot open this Excel file" -> {"xlrd", "excel"}
      [] c = "bad Excel data" -> {"excel"}
      [] c = "pandoc failed on the PowerPoint file" -> {"pandoc", "powerpoint"}
      [] c = "bad PowerPoint data" -> {"powerpoint"}
      [] OTHER -> {}

\* word in error_message.lower()
Mentions(msg, word) == \E i \in 1..Len(msg) : word \in Keywords(msg[i].c)

RECURSIVE Content(_)
\* content += doc.page_content + "\n\n" for every document
Content(documents) ==
    IF documents = <<>> THEN <<>>
    ELSE Cat(Cat(documents[1].page_content, <<Piece("\n", 2)>>), Content(Tail(documents)))

RECURSIVE FileType(_, _)
\* The loop's file_type: the first file_type of the documents' metadata.
FileType(documents, file_type) ==
    IF documents = <<>> THEN file_type
    ELSE IF file_type = "unknown" /\ "file_type" \in DOMAIN documents[1].metadata
    THEN FileType(Tail(documents), documents[1].metadata["file_type"])
    ELSE FileType(Tail(documents), file_type)

FileTypeDesc(file_type) ==
    IF file_type = "excel" THEN "Excel spreadsheet"
    ELSE IF file_type = "word" THEN "Word document"
    ELSE IF file_type = "pdf" THEN "PDF document"
    ELSE IF file_type = "text" THEN "text file"
    ELSE IF file_type = "powerpoint" THEN "PowerPoint presentation"
    ELSE "document"

NoDocumentAnswer ==
    Msg("I don't have any document content to analyze. Please upload a document first.")

EmptyDocumentAnswer ==
    Msg("The document appears to be empty or contains no extractable text content. Please try uploading a different document format or check if the document contains actual text content that can be extracted.")

NoKeyAnswer ==
    Msg("API key not configured. Please set the GROQ_API_KEY environment variable.")

Answered(state, answer, calls, prompts) ==
    [raised |-> FALSE, state |-> Merge(state, [answer |-> answer]), exc |-> NoExc,
     calls |-> calls, prompts |-> prompts]

AnswerRaised(exc, calls, prompts) ==
    [raised |-> TRUE, state |-> <<>>, exc |-> exc, calls |-> calls, prompts |-> prompts]

\* question.lower().strip() is one of the raw-content phrases
IsRawContentQuestion(question) == strip(lower(question)) \in RawContentPhrases

\* A mistaken cut: the content whole.
Truncated_whole(content, limit) == content

\* content[:limit] if len(content) > limit else content
Truncated(content, limit) ==
    IF StrLen(content) > limit THEN Take(content, limit) ELSE content

\* A mistaken body: the client and the credential come before the blank test.
AnswerBody_client_first(state, key, llm) ==
    LET documents == IF "documents" \in DOMAIN state THEN state["documents"] ELSE <<>>
        content == Content(documents)
        question == IF "question" \in DOMAIN state THEN state["question"] ELSE <<>>
        prompt == [context |-> Truncated(content, ContextLimit),
                   question |-> question,
                   file_type_desc |-> FileTypeDesc(FileType(documents, "unknown"))]
    IN  IF documents = <<>> THEN Answered(state, NoDocumentAnswer, <<>>, <<>>)
        ELSE IF ~llm.construct.ok THEN AnswerRaised(llm.construct.exc, <<"ChatGroq">>, <<>>)
        ELSE IF key = <<>> THEN Answered(state, NoKeyAnswer, <<"ChatGroq">>, <<>>)
        ELSE IF IsBlank(content) THEN Answered(state, EmptyDocumentAnswer, <<"ChatGroq">>, <<>>)
        ELSE IF IsRawContentQuestion(question)
        THEN Answered(state, Truncated(content, RawContentLimit), <<"ChatGroq">>, <<>>)
        ELSE IF "question" \notin DOMAIN state
        THEN AnswerRaised([type |-> "KeyError", msg |-> Msg("'question'")],
                          <<"ChatGroq">>, <<>>)
        ELSE IF ~llm.invoke.ok
        THEN AnswerRaised(llm.invoke.exc, <<"ChatGroq", "chain.invoke">>, <<prompt>>)
        ELSE Answered(state, llm.invoke.val, <<"ChatGroq", "chain.invoke">>, <<prompt>>)

\* The body of the try of answer_question.  key is GROQ_API_KEY, llm what
\* the client does; prompts lists the calls of the LLM with what they held.
AnswerBody(state, key, llm) ==
    LET documents == IF "documents" \in DOMAIN state THEN state["documents"] ELSE <<>>
        content == Content(documents)
        question == IF "question" \in DOMAIN state THEN state["question"] ELSE <<>>
        prompt == [context |-> Truncated(content, ContextLimit),
                   question |-> question,
                   file_type_desc |-> FileTypeDesc(FileType(documents, "unknown"))]
    IN  IF documents = <<>> THEN Answered(state, NoDocumentAnswer, <<>>, <<>>)
        ELSE IF IsBlank(content) THEN Answered(state, EmptyDocumentAnswer, <<>>, <<>>)
        ELSE IF ~llm.construct.ok THEN AnswerRaised(llm.construct.exc, <<"ChatGroq">>, <<>>)
        ELSE IF key = <<>> THEN Answered(state, NoKeyAnswer, <<"ChatGroq">>, <<>>)
        ELSE IF IsRawContentQuestion(question)
        THEN Answered(state, Truncated(content, RawContentLimit), <<"ChatGroq">>, <<>>)
        ELSE IF "question" \notin DOMAIN state
        THEN AnswerRaised([type |-> "KeyError", msg |-> Msg("'question'")],
                          <<"ChatGroq">>, <<>>)
        ELSE IF ~llm.invoke.ok
        THEN AnswerRaised(llm.invoke.exc, <<"ChatGroq", "chain.invoke">>, <<prompt>>)
        ELSE Answered(state, llm.invoke.val, <<"ChatGroq", "chain.invoke">>, <<prompt>>)

\* The message answer_question gives for an exception.
Diagnosis(error_message) ==
    IF Mentions(error_message, "openpyxl")
    THEN Msg("I encountered an error while processing your Excel file. The server is missing the 'openpyxl' package which is required for Excel support. Please contact the administrator to install this package by running: pip install openpyxl")
    ELSE IF Mentions(error_message, "xlrd")
    THEN Msg("I encountered an error while processing your Excel file. The server is missing packages required for Excel support. Please contact the administrator to install the necessary packages by running: pip install openpyxl xlrd")
    ELSE IF Mentions(error_message, "excel")
    THEN Cat(Msg("I encountered an error while processing your Excel file. Please make sure your Excel file is not password-protected or corrupted. The specific error was: "),
             error_message)
    ELSE IF Mentions(error_message, "pandoc")
    THEN Msg("I encountered an error while processing your PowerPoint file. The server is missing Pandoc which is required for PowerPoint support. Pandoc is not a Python package but a separate program that needs to be installed on the system. Please ask the administrator to install Pandoc from https://pandoc.org/installing.html")
    ELSE IF Mentions(error_message, "powerpoint")
    THEN Cat(Msg("I encountered an error while processing your PowerPoint file. Please make sure your PowerPoint file is not password-protected or corrupted. The specific error was: "),
             error_message)
    ELSE Cat(Msg("I apologize, but I encountered an error while processing your question: "),
             error_message)

\* A mistaken answer_question: a failed call of the LLM is made again.
answer_question_retry(state, key, llm) ==
    LET r == AnswerBody(state, key, llm)
        called == \E i \in 1..Len(r.calls) : r.calls[i] = "chain.invoke"
    IN  IF r.raised
        THEN Answered(state, Diagnosis(r.exc.msg),
                      IF called THEN r.calls \o <<"chain.invoke">> ELSE r.calls,
                      IF called THEN r.prompts \o r.prompts ELSE r.prompts)
        ELSE r

\* except Exception as e: return {**state, "answer": ...}
answer_question(state, key, llm) ==
    LET r == AnswerBody(state, key, llm)
    IN  IF r.raised THEN Answered(state, Diagnosis(r.exc.msg), r.calls, r.prompts)
        ELSE r

(***************************************************************************)
(* build_qa_graph and DocumentQAAgent.run (agent.py).                      *)
(***************************************************************************)

END == "__end__"

\* workflow.set_entry_point("process_document")
entry_point == "process_document"

\* A mistaken graph: answer_question leads back to process_document.
edge_back(node) ==
    IF node = "process_document" THEN "answer_question" ELSE "process_document"

\* workflow.add_edge: the node that follows each node
edge(node) ==
    IF node = "process_document" THEN "answer_question"
    ELSE IF node = "answer_question" THEN END
    ELSE END

NoDocumentProvided ==
    Msg("No document provided. Please provide either a file path or pre-processed content.")

ContentTooShort ==
    Msg("The provided document content is too short or empty. Please upload a valid document.")

NoAnswerGenerated ==
    Msg("No answer could be generated. Please try rephrasing your question or upload a different document.")

\* A mistaken start of run: a path given with a text is kept in the state.
Prepare_both(question, file_path, pre_processed_content, exists) ==
    LET given_path == file_path # NoPath /\ file_path # <<>>
        given_text == pre_processed_content # NoText /\ pre_processed_content # <<>>
    IN  IF ~given_path /\ ~given_text
        THEN [returns |-> TRUE, result |-> NoDocumentProvided, state |-> None]
        ELSE IF given_text
        THEN IF StrLen(pre_processed_content) < MinContentLen
             THEN [returns |-> TRUE, result |-> ContentTooShort, state |-> None]
             ELSE [returns |-> FALSE, result |-> NoText,
                   state |-> IF given_path
                             THEN [question |-> question, file_path |-> file_path,
                                   pre_processed_content |-> pre_processed_content]
                             ELSE [question |-> question,
                                   pre_processed_content |-> pre_processed_content]]
        ELSE IF ~exists
        THEN [returns |-> TRUE,
              result |-> Cat(Cat(Msg("File not found: "), Lit(file_path)),
                             Msg(". Please upload a valid document.")),
              state |-> None]
        ELSE [returns |-> FALSE, result |-> NoText,
              state |-> [question |-> question, file_path |-> file_path]]

\* The lines of run before the workflow starts: what run does with its
\* arguments (NoPath and NoText are an argument left out; exists is os.path.exists).  It
\* returns a message at once, or builds the initial state.
Prepare(question, file_path, pre_processed_content, exists) ==
    LET given_path == file_path # NoPath /\ file_path # <<>>
        given_text == pre_processed_content # NoText /\ pre_processed_content # <<>>
    IN  IF ~given_path /\ ~given_text
        THEN [returns |-> TRUE, result |-> NoDocumentProvided, state |-> None]
        ELSE IF given_text
        THEN IF StrLen(pre_processed_content) < MinContentLen
             THEN [returns |-> TRUE, result |-> ContentTooShort, state |-> None]
             ELSE [returns |-> FALSE, result |-> NoText,
                   state |-> [question |-> question,
                              pre_processed_content |-> pre_processed_content]]
        ELSE IF ~exists
        THEN [returns |-> TRUE,
              result |-> Cat(Cat(Msg("File not found: "), Lit(file_path)),
                             Msg(". Please upload a valid document.")),
              state |-> None]
        ELSE [returns |-> FALSE, result |-> NoText,
              state |-> [question |-> question, file_path |-> file_path]]

\* A mistaken end of run: the answer is returned whatever it is.
Outcome_any_answer(final) ==
    IF "error" \in DOMAIN final
    THEN Cat(Msg("Error processing document: "), final["error"])
    ELSE IF "answer" \in DOMAIN final THEN final["answer"]
    ELSE <<>>

\* A mistaken end of run: the answer is looked at before the error.
Outcome_answer_first(final) ==
    IF "answer" \in DOMAIN final /\ final["answer"] # <<>>
    THEN final["answer"]
    ELSE IF "error" \in DOMAIN final
    THEN Cat(Msg("Error processing document: "), final["error"])
    ELSE NoAnswerGenerated

\* The lines of run after graph.invoke returned.
Outcome(final) ==
    IF "error" \in DOMAIN final
    THEN Cat(Msg("Error processing document: "), final["error"])
    ELSE IF "answer" \notin DOMAIN final \/ final["answer"] = <<>>
    THEN NoAnswerGenerated
    ELSE final["answer"]

\* except Exception as e of run
Caught(msg) == Cat(Msg("An error occurred while processing your request: "), msg)

(***************************************************************************)
(* The state of the model.                                                 *)
(***************************************************************************)

VARIABLES
    pc,        \* where the call is: of run in Spec, of process_document in SpecPD
    state,     \* the AgentState the workflow threads through its nodes
    result,    \* what run returned
    trace,     \* the nodes the workflow has executed, in order
    calls,     \* the library calls made so far, in order
    prompts,   \* the calls of the LLM made so far, with what each was handed
    args,      \* the arguments run was called with
    input,     \* SpecPD: the state process_document is called with
    world,     \* SpecPD: the file and libraries it meets
    output,    \* SpecPD, SpecAQ: what the call did
    upload,    \* SpecUp: the local variables of upload_file
    files,     \* SpecUp: the names of the files in the upload directory
    response,  \* SpecUp: what upload_file responded
    tick,      \* SpecApi: the time of the file system, one tick a write
    done       \* SpecApi: the uploads answered with a success, in order

vars == <<pc, state, result, trace, calls, prompts, args, input, world, output,
          upload, files, response, tick, done>>

(***************************************************************************)
(* SpecPD: process_document called once on any state a caller can build.   *)
(***************************************************************************)

\* The pre-processed texts tried: empty, blank, short and long.
PreTexts ==
    { <<>>, <<Piece(" ", MinContentLen)>>, <<Piece("a", 1)>>,
      <<Piece("a", MinContentLen), Piece(" ", 1), Piece(".", 1)>> }

\* The states tried: a question, and a file path, a pre-processed text,
\* both or neither (an absent key and an empty string both count as unset).
InputStates ==
    { q @@ f @@ t :
        q \in {[question |-> UploadQuestion]},
        f \in {<<>>} \cup {[file_path |-> p] : p \in Paths \cup {<<>>}},
        t \in {<<>>} \cup {[pre_processed_content |-> x] : x \in PreTexts} }

PDInit ==
    /\ pc = "call"
    /\ input \in InputStates
    /\ world \in Worlds
    /\ output = None
    /\ state = None
    /\ result = NoText
    /\ trace = <<>>
    /\ calls = <<>>
    /\ prompts = <<>>
    /\ args = None
    /\ upload = None
    /\ files = {}
    /\ response = None
    /\ tick = 0
    /\ done = <<>>

PDCall ==
    /\ pc = "call"
    /\ output' = process_document(input, world)
    /\ pc' = "called"
    /\ UNCHANGED <<state, result, trace, calls, prompts, args, input, world>>
    /\ UNCHANGED <<upload, files, response, tick, done>>

PDNext == PDCall

SpecPD == PDInit /\ [][PDNext]_vars

(***************************************************************************)
(* Spec: one call of DocumentQAAgent.run, its workflow taken node by node. *)
(***************************************************************************)

Nodes == {"process_document", "answer_question"}

\* os.getenv("GROQ_API_KEY"): <<>> when it is unset or empty
Credentials == {<<>>, <<"k">>}

\* The pre-processed texts run is called with.
RunTexts == PreTexts \cup {<<Piece("a", RawContentLimit - 1)>>}

\* The calls of run tried: every question with every path or none and every
\* text or none; both a path and a text are given with one path only.
RunArguments ==
    { a \in [question : Questions, file_path : Paths \cup {<<>>, NoPath},
             pre_processed_content : RunTexts \cup {NoText}] :
        \/ a.pre_processed_content \in {NoText, <<>>}
        \/ a.file_path \in {NoPath, <<"a", ".", "p", "d", "f">>} }

Init ==
    /\ pc = "run"
    /\ state = None
    /\ result = NoText
    /\ trace = <<>>
    /\ calls = <<>>
    /\ prompts = <<>>
    /\ args = None
    /\ input = None
    /\ world = None
    /\ output = None
    /\ upload = None
    /\ files = {}
    /\ response = None
    /\ tick = 0
    /\ done = <<>>

\* run(question, file_path, pre_processed_content) up to graph.invoke
Run ==
    /\ pc = "run"
    /\ \E a \in RunArguments, exists \in BOOLEAN :
            LET p == Prepare(a.question, a.file_path, a.pre_processed_content, exists)
            IN  /\ args' = a
                /\ IF p.returns
                   THEN /\ pc' = "returned"
                        /\ result' = p.result
                        /\ state' = state
                   ELSE /\ pc' = entry_point
                        /\ result' = result
                        /\ state' = p.state
    /\ UNCHANGED <<trace, calls, prompts, input, world, output>>
    /\ UNCHANGED <<upload, files, response, tick, done>>

\* The workflow runs the node process_document and follows its edge; past
\* recursion_limit steps, or when the node raises, graph.invoke raises and
\* run returns the message of its except clause.
ProcessDocumentNode ==
    /\ pc = "process_document"
    /\ \E w \in Worlds :
        LET r == process_document(state, w)
        IN  IF Len(trace) >= recursion_limit
            THEN /\ pc' = "returned"
                 /\ result' = Caught(Msg("Recursion limit of 50 reached"))
                 /\ UNCHANGED <<state, trace, calls>>
            ELSE /\ trace' = Append(trace, "process_document")
                 /\ calls' = calls \o r.calls
                 /\ IF r.raised
                    THEN /\ pc' = "returned"
                         /\ result' = Caught(r.exc.msg)
                         /\ state' = state
                    ELSE /\ pc' = edge("process_document")
                         /\ result' = result
                         /\ state' = r.state
    /\ UNCHANGED <<prompts, args, input, world, output>>
    /\ UNCHANGED <<upload, files, response, tick, done>>

\* The workflow runs the node answer_question and follows its edge.
AnswerQuestionNode ==
    /\ pc = "answer_question"
    /\ \E llm \in LLMWorlds, GROQ_API_KEY \in Credentials :
        LET r == answer_question(state, GROQ_API_KEY, llm)
        IN  IF Len(trace) >= recursion_limit
            THEN /\ pc' = "returned"
                 /\ result' = Caught(Msg("Recursion limit of 50 reached"))
                 /\ UNCHANGED <<state, trace, calls, prompts>>
            ELSE /\ trace' = Append(trace, "answer_question")
                 /\ calls' = calls \o r.calls
                 /\ prompts' = prompts \o r.prompts
                 /\ IF r.raised
                    THEN /\ pc' = "returned"
                         /\ result' = Caught(r.exc.msg)
                         /\ state' = state
                    ELSE /\ pc' = edge("answer_question")
                         /\ result' = result
                         /\ state' = r.state
    /\ UNCHANGED <<args, input, world, output>>
    /\ UNCHANGED <<upload, files, response, tick, done>>

\* graph.invoke returned: run returns the error, the answer or a fixed text.
RunReturn ==
    /\ pc = END
    /\ result' = Outcome(state)
    /\ pc' = "returned"
    /\ UNCHANGED <<state, trace, calls, prompts, args, input, world, output>>
    /\ UNCHANGED <<upload, files, response, tick, done>>

\* The workflow library itself fails inside graph.invoke: run's except
\* clause returns its message.
InvokeRaises ==
    /\ pc \in Nodes \cup {END}
    /\ result' = Caught(LibraryError)
    /\ pc' = "returned"
    /\ UNCHANGED <<state, trace, calls, prompts, args, input, world, output>>
    /\ UNCHANGED <<upload, files, response, tick, done>>

Next == Run \/ ProcessDocumentNode \/ AnswerQuestionNode \/ RunReturn \/ InvokeRaises

Spec == Init /\ [][Next]_vars

(***************************************************************************)
(* SpecAQ: answer_question called once on a state process_document can     *)
(* hand to it, with any credential and any behaviour of the LLM client.    *)
(***************************************************************************)

\* The states the workflow starts from: run gives it a file path or a
\* pre-processed text of at least MinContentLen characters.
GraphInputs ==
    { [question |-> UploadQuestion, file_path |-> Lit0] :
        Lit0 \in { <<"a">> \o e : e \in {Ext_xlsx, Ext_xls, Ext_docx, Ext_doc, Ext_pdf,
                                        Ext_txt, Ext_ppt, Ext_pptx, <<".", "c", "s", "v">>} } }
    \cup
    { [question |-> UploadQuestion, pre_processed_content |-> t] :
        t \in {x \in RunTexts : StrLen(x) >= MinContentLen} }

\* The environment of answer_question: GROQ_API_KEY and the LLM client.
\* Its state is what process_document left of a state the workflow starts
\* from, under each question.
AnswerWorlds == [key : Credentials, llm : LLMWorlds]

AQInit ==
    /\ pc = "ask"
    /\ \E s \in GraphInputs, w \in Worlds, q \in Questions :
            input = Merge(process_document(s, w).state, [question |-> q])
    /\ world \in AnswerWorlds
    /\ output = None
    /\ state = None
    /\ result = NoText
    /\ trace = <<>>
    /\ calls = <<>>
    /\ prompts = <<>>
    /\ args = None
    /\ upload = None
    /\ files = {}
    /\ response = None
    /\ tick = 0
    /\ done = <<>>

AQCall ==
    /\ pc = "ask"
    /\ output' = answer_question(input, world.key, world.llm)
    /\ pc' = "asked"
    /\ UNCHANGED <<state, result, trace, calls, prompts, args, input, world>>
    /\ UNCHANGED <<upload, files, response, tick, done>>

AQNext == AQCall

SpecAQ == AQInit /\ [][AQNext]_vars

(***************************************************************************)
(* upload_file (api.py) and SpecUp: one upload request, step by step.      *)
(***************************************************************************)

\* chunk_size = 1024 * 1024
chunk_size == 1048576

\* 10 * 1024 * 1024, the most bytes an upload may hold
MaxUploadSize == 10485760

\* len(result) < 20: the shortest result of run taken as content
MinRunResult == 20

\* len(result) < 10: the shortest content accepted
MinUploadContent == 10

\* result[:500]
PreviewLimit == 500

supported_extensions ==
    {Ext_pdf, Ext_docx, Ext_doc, Ext_xlsx, Ext_xls, Ext_txt, Ext_ppt, Ext_pptx}

\* raise HTTPException(status_code=..., detail=...)
HTTPException(status_code, detail) == [status_code |-> status_code, detail |-> detail]

\* UploadResponse(status="success", ...)
UploadResponse(filename, content_preview, content) ==
    [status_code |-> 200, status |-> "success",
     message |-> Msg("File uploaded and processed successfully"),
     filename |-> filename, content_preview |-> content_preview, content |-> content]

\* The directory of the uploads, as a prefix of a path.
UPLOAD_DIR == <<"u", "/">>

\* int(time.time()) at the moment the name is made
Clock == {<<"1">>, <<"2">>}

\* f"{os.path.splitext(file.filename)[0]}_{int(time.time())}{file_ext}"
unique_filename(filename, file_ext, now) ==
    SubSeq(filename, 1, Len(filename) - Len(splitext(filename))) \o <<"_">> \o now \o file_ext

\* sub in chars
Contains(chars, sub) ==
    \E i \in 1..(Len(chars) - Len(sub) + 1) : SubSeq(chars, i, i + Len(sub) - 1) = sub

\* The content the direct extraction of upload_file takes from the state
\* process_document returned, or the ValueError it raises.
DirectContent(process_result) ==
    IF "documents" \in DOMAIN process_result
    THEN IF ~IsBlank(Content(process_result["documents"]))
         THEN Returns(Content(process_result["documents"]))
         ELSE Raises("ValueError", Msg("Could not extract text content from document"))
    ELSE IF "error" \in DOMAIN process_result
    THEN Raises("ValueError", process_result["error"])
    ELSE Raises("ValueError", Msg("Document processing failed to extract text content"))

\* The words the except clause of upload_file looks for that a literal of
\* an error message holds, in any case.
UploadKeywords(c) ==
    CASE c = "Error processing Excel file: " -> {"excel"}
      [] c = "Excel processing error: " -> {"excel"}
      [] c = "Failed to process Excel file with both openpyxl and xlrd engines: " ->
            {"openpyxl", "xlrd", "excel"}
      [] c = "Missing required dependency 'openpyxl' for Excel processing. Please install with: pip install openpyxl" ->
            {"openpyxl", "excel"}
      [] c \in {"Error processing PowerPoint file ", "Error processing PowerPoint file '",
                "Error processing PowerPoint file: ",
                "Failed to extract content from PowerPoint file: ",
                "': Failed to extract content from PowerPoint file: ",
                ". The file may be empty, corrupted, or not a valid PowerPoint file.",
                "PowerPoint file is empty: ", "PowerPoint file not found: "} -> {"powerpoint"}
      [] c = ". Please ensure Pandoc is correctly installed and the file is not corrupted." ->
            {"pandoc"}
      [] c = "Pandoc is required for PowerPoint processing but was not found on the system. Please install Pandoc from https://pandoc.org/installing.html" ->
            {"pandoc", "powerpoint"}
      [] c = "Pandoc not found. Please install Pandoc from https://pandoc.org/installing.html or run the add_pandoc_to_path.bat script (on Windows) to add it to your PATH." ->
            {"pandoc"}
      [] c \in Literals(NoPandocFound) -> {"pandoc"}
      [] OTHER -> Keywords(c)

\* word in error_message.lower()
UploadMentions(msg, word) == \E i \in 1..Len(msg) : word \in UploadKeywords(msg[i].c)

\* The detail of the HTTP 500 of the except clause of upload_file.
UploadErrorDetail(error_message, file_path) ==
    IF UploadMentions(error_message, "openpyxl") \/ UploadMentions(error_message, "xlrd")
    THEN Msg("Excel processing failed: The server is missing required dependencies. Please ask the administrator to install: pip install openpyxl xlrd")
    ELSE IF Contains(lower(file_path), Ext_xls) /\ UploadMentions(error_message, "excel")
    THEN Cat(Cat(Msg("Excel processing failed: "), error_message),
             Msg(". The file may be password-protected, corrupted, or in an unsupported format."))
    ELSE IF UploadMentions(error_message, "pandoc")
    THEN Msg("PowerPoint processing failed: Pandoc is required but not installed. Please ask the administrator to install Pandoc from https://pandoc.org/installing.html")
    ELSE IF Contains(lower(file_path), Ext_ppt) \/ UploadMentions(error_message, "powerpoint")
    THEN Cat(Cat(Msg("PowerPoint processing failed: "), error_message),
             Msg(". The file may be password-protected, corrupted, or in an unsupported format."))
    ELSE Cat(Msg("Error processing file: "), error_message)

\* result[:500] + "..." if len(result) > 500 else result
Preview(content) ==
    IF StrLen(content) > PreviewLimit
    THEN Cat(Take(content, PreviewLimit), Msg("..."))
    ELSE content

\* The names uploads come under.
UploadNames ==
    { <<"a", ".", "t", "x", "t">>, <<"a", ".", "P", "D", "F">>,
      <<"a", ".", "x", "l", "s", "x">>, <<"a", ".", "p", "p", "t", "x">>,
      <<"a", ".", "c", "s", "v">> }

\* The sizes of the bodies of the uploads, in bytes.
BodySizes ==
    {0, 1, chunk_size, MaxUploadSize - 1, MaxUploadSize, MaxUploadSize + 1,
     MaxUploadSize + chunk_size + 1}

UpInit ==
    /\ pc = "upload"
    /\ args \in [filename : UploadNames, size : BodySizes]
    /\ upload = None
    /\ files = {}
    /\ response = None
    /\ tick = 0
    /\ done = <<>>
    /\ result = NoText
    /\ state = None
    /\ trace = <<>>
    /\ calls = <<>>
    /\ prompts = <<>>
    /\ input = None
    /\ world = None
    /\ output = None

\* The extension is checked and the temporary file is created.
UpValidate ==
    /\ pc = "upload"
    /\ UNCHANGED <<tick, done>>
    /\ LET file_ext == lower(splitext(args.filename))
       IN  IF file_ext \notin supported_extensions
           THEN /\ response' = HTTPException(400,
                                  Msg("Unsupported file type. Supported types: .pdf, .docx, .doc, .xlsx, .xls, .txt, .ppt, .pptx"))
                /\ pc' = "responded"
                /\ upload' = upload
           ELSE /\ upload' = [file_ext |-> file_ext, file_size |-> 0, unread |-> args.size,
                              temp_file |-> TRUE, written |-> 0, file_path |-> NoPath,
                              documents |-> <<>>, ran |-> FALSE]
                /\ pc' = "read"
                /\ response' = response
    /\ UNCHANGED <<state, result, trace, calls, prompts, args, input, world, output, files>>

\* A mistaken size check: no size is over the limit.
OverLimit_never(file_size) == FALSE

\* if file_size > 10 * 1024 * 1024
OverLimit(file_size) == file_size > MaxUploadSize

\* One turn of the loop: a chunk is read, counted and, when the count is
\* within the limit, written to the temporary file; over the limit the
\* temporary file is unlinked (which may fail) and the request is refused.
UpReadChunk ==
    /\ pc = "read"
    /\ UNCHANGED <<tick, done>>
    /\ LET chunk == IF upload.unread < chunk_size THEN upload.unread ELSE chunk_size
           file_size == upload.file_size + chunk
       IN  IF chunk = 0
           THEN /\ pc' = "move"
                /\ UNCHANGED <<upload, response>>
           ELSE IF OverLimit(file_size)
           THEN \E unlinked \in BOOLEAN :
                    /\ upload' = [upload EXCEPT !.file_size = file_size,
                                                !.unread = @ - chunk,
                                                !.temp_file = ~unlinked]
                    /\ response' = IF unlinked
                                   THEN HTTPException(400, Msg("File size exceeds 10MB limit"))
                                   ELSE HTTPException(500, LibraryError)
                    /\ pc' = "responded"
           ELSE /\ upload' = [upload EXCEPT !.file_size = file_size,
                                            !.unread = @ - chunk,
                                            !.written = @ + chunk]
                /\ pc' = "read"
                /\ response' = response
    /\ UNCHANGED <<state, result, trace, calls, prompts, args, input, world, output, files>>

\* shutil.move(temp_file_path, file_path): the file enters the upload
\* directory under its unique name; a failure of the move is answered 500.
UpMove ==
    /\ pc = "move"
    /\ UNCHANGED <<tick, done>>
    /\ \E now \in Clock, moved \in BOOLEAN :
          LET name == unique_filename(args.filename, upload.file_ext, now)
          IN  IF moved
              THEN /\ files' = files \cup {name}
                   /\ upload' = [upload EXCEPT !.temp_file = FALSE,
                                               !.file_path = UPLOAD_DIR \o name]
                   /\ pc' = "run"
                   /\ response' = response
              ELSE /\ response' = HTTPException(500, LibraryError)
                   /\ pc' = "responded"
                   /\ UNCHANGED <<files, upload>>
    /\ UNCHANGED <<state, result, trace, calls, prompts, args, input, world, output>>

\* if not result or len(result) < 20: where upload_file goes with the
\* result of run.
AfterRun(text) ==
    IF text = <<>> \/ StrLen(text) < MinRunResult THEN "direct" ELSE "validate"

\* What upload_file holds once run returned text without finishing its
\* workflow.
RunEnded(text) ==
    /\ result' = text
    /\ pc' = AfterRun(text)
    /\ upload' = [upload EXCEPT !.ran = TRUE]
    /\ state' = state

\* The stage process_document of the workflow of run ended as r.
RunProcessed(r) ==
    IF r.raised
    THEN RunEnded(Caught(r.exc.msg))
    ELSE /\ state' = r.state
         /\ upload' = [upload EXCEPT
                          !.ran = TRUE,
                          !.documents = IF "documents" \in DOMAIN r.state
                                        THEN r.state["documents"] ELSE <<>>]
         /\ pc' = "answer"
         /\ result' = result

\* run was given the arguments that Prepare turned into p.
RunPrepared(p) ==
    IF p.returns
    THEN RunEnded(p.result)
    ELSE \E w \in Worlds, engine_ok \in BOOLEAN :
             IF engine_ok
             THEN RunProcessed(process_document(p.state, w))
             ELSE RunEnded(Caught(LibraryError))

\* agent.run(file_path=file_path, question=...) on the stored file, up to
\* the end of the stage process_document of its workflow; engine_ok is false
\* when graph.invoke itself raises.
UpRun ==
    /\ pc = "run"
    /\ UNCHANGED <<tick, done>>
    /\ RunPrepared(Prepare(UploadQuestion, upload.file_path, NoText, TRUE))
    /\ UNCHANGED <<trace, calls, prompts, args, input, world, output, files, response>>

\* The stage answer_question of the workflow ended as r.
RunAnswered(r) ==
    LET text == IF r.raised THEN Caught(r.exc.msg) ELSE Outcome(r.state)
    IN  /\ result' = text
        /\ pc' = AfterRun(text)
        /\ state' = IF r.raised THEN state ELSE r.state

\* The stage answer_question of the workflow and the return of run.
UpAnswer ==
    /\ pc = "answer"
    /\ UNCHANGED <<tick, done>>
    /\ \E key \in Credentials, llm \in LLMWorlds, engine_ok \in BOOLEAN :
          IF engine_ok
          THEN RunAnswered(answer_question(state, key, llm))
          ELSE /\ result' = Caught(LibraryError)
               /\ pc' = AfterRun(Caught(LibraryError))
               /\ state' = state
    /\ UNCHANGED <<trace, calls, prompts, args, input, world, output, files, response, upload>>

\* The except clause of upload_file: the stored file is removed and the
\* request answered 500; when the removal fails, its exception is answered.
UploadFailed(error_message) ==
    \E removed \in BOOLEAN :
        /\ files' = IF removed THEN files \ {SubSeq(upload.file_path, Len(UPLOAD_DIR) + 1,
                                                    Len(upload.file_path))}
                    ELSE files
        /\ response' = IF removed
                       THEN HTTPException(500, UploadErrorDetail(error_message, upload.file_path))
                       ELSE HTTPException(500, LibraryError)
        /\ pc' = "responded"

\* The direct extraction ended: process_document returned process_result
\* and content was taken from it.
DirectExtracted(process_result, content) ==
    IF content.ok
    THEN /\ result' = content.val
         /\ upload' = [upload EXCEPT !.documents = process_result["documents"]]
         /\ pc' = "validate"
         /\ UNCHANGED <<files, response>>
    ELSE /\ UploadFailed(content.exc.msg)
         /\ UNCHANGED <<result, upload>>

\* DocumentProcessor.process_document({"file_path": file_path}).state
DirectState(w) == process_document([file_path |-> upload.file_path], w).state

\* The result of run was too short: the document is extracted directly.
UpDirect ==
    /\ pc = "direct"
    /\ UNCHANGED <<tick, done>>
    /\ \E w \in Worlds : DirectExtracted(DirectState(w), DirectContent(DirectState(w)))
    /\ UNCHANGED <<state, trace, calls, prompts, args, input, world, output>>

\* The content is validated and the response made.
UpRespond ==
    /\ pc = "validate"
    /\ UNCHANGED <<tick, done>>
    /\ IF result = <<>> \/ IsBlank(result) \/ StrLen(result) < MinUploadContent
       THEN UploadFailed(Msg("The document appears to be empty or contains no extractable text content"))
       ELSE /\ response' = UploadResponse(SubSeq(upload.file_path, Len(UPLOAD_DIR) + 1,
                                                 Len(upload.file_path)),
                                          Preview(result), result)
            /\ pc' = "responded"
            /\ files' = files
    /\ UNCHANGED <<state, result, trace, calls, prompts, args, input, world, output, upload>>

UpNext ==
    UpValidate \/ UpReadChunk \/ UpMove \/ UpRun \/ UpAnswer \/ UpDirect \/ UpRespond

SpecUp == UpInit /\ [][UpNext]_vars

(***************************************************************************)
(* SpecApi: the server with two upload requests and one chat request in    *)
(* flight.  upload_file and chat are coroutines of one event loop: a       *)
(* request gives up control where its handler awaits, which upload_file    *)
(* does at file.read alone and chat nowhere.  What lies between two awaits *)
(* is one step.  The upload directory is all the requests share.           *)
(***************************************************************************)

\* len(content) < 50: the shortest content chat hands to run
MinChatContent == 50

Uploads == {"u1", "u2"}

Chats == {"c1"}

Requests == Uploads \cup Chats

\* The environment of the server: the credential is set, the LLM answers.
ApiKey == <<"k">>

ApiLLM == [construct |-> Returns(TRUE), invoke |-> Returns(Msg("The answer."))]

\* What the uploaded files hold: a text too short to be taken and a text
\* long enough.
ApiBodies ==
    [kind : {"text"},
     text : {Returns(<<Piece("a", 1)>>), Returns(<<Piece("a", MinRunResult)>>)}]

ApiNames == {<<"a", ".", "t", "x", "t">>, <<"b", ".", "t", "x", "t">>}

ApiSizes == {1, 2 * chunk_size}

\* request.file_info: absent, without content, or with a content that is
\* empty, blank, too short once stripped, or long enough.
FileInfos ==
    { None, [filename |-> <<"a">>] }
    \cup { [content |-> t] :
             t \in { <<>>,
                     <<Piece(" ", 3)>>,
                     <<Piece(" ", 1), Piece("b", MinChatContent - 1), Piece("\n", 1)>>,
                     <<Piece(" ", 1), Piece("b", MinChatContent), Piece("\n", 1)>> } }

ChatQuestions == {<<>>, <<"w", "h", "y", "?">>}

RECURSIVE RStrip(_)
RStrip(s) ==
    IF s # <<>> /\ s[Len(s)].c \in WhiteSpace THEN RStrip(SubSeq(s, 1, Len(s) - 1)) ELSE s

\* str.strip() of a text
Strip(s) == RStrip(LStrip(s))

\* ChatResponse(status="success", answer=answer)
ChatResponse(answer) == [status_code |-> 200, status |-> "success", answer |-> answer]

\* What a run of the workflow gave: the text run returns, the prompts the
\* LLM was handed and the library calls made.
ApiAnswered(calls1, r) ==
    [result |-> Outcome(r.state), prompts |-> r.prompts, calls |-> calls1 \o r.calls]

ApiProcessed(r) == ApiAnswered(r.calls, answer_question(r.state, ApiKey, ApiLLM))

ApiPrepared(p, w) ==
    IF p.returns THEN [result |-> p.result, prompts |-> <<>>, calls |-> <<>>]
    ELSE ApiProcessed(process_document(p.state, w))

\* agent.run(question, file_path, pre_processed_content) in the environment
\* of the server, on a file that holds w.
ApiRun(question, file_path, pre_processed_content, exists, w) ==
    ApiPrepared(Prepare(question, file_path, pre_processed_content, exists), w)

\* The upload directory with the file moved into it, over any file of that
\* name; the moved file keeps the modification time it had.
Moved(r, name) ==
    (name :> [mtime |-> upload[r].mtime, owner |-> r, body |-> args[r].body]) @@ files

\* A mistaken clean-up: the file stays in the upload directory.
Removed_kept(dir, name) == dir

\* The upload directory with the file removed from it.
Removed(dir, name) == [n \in DOMAIN dir \ {name} |-> dir[n]]

ApiInit ==
    /\ pc = [r \in Requests |-> "wait"]
    /\ args = [r \in Requests |-> None]
    /\ upload = [r \in Requests |-> None]
    /\ response = [r \in Requests |-> None]
    /\ files = <<>>
    /\ tick = 0
    /\ done = <<>>
    /\ state = None
    /\ result = NoText
    /\ trace = <<>>
    /\ calls = <<>>
    /\ prompts = <<>>
    /\ input = None
    /\ world = None
    /\ output = None

\* An upload request arrives: the extension is checked and the temporary
\* file is created.
ApiUploadBegin(r) ==
    /\ pc[r] = "wait"
    /\ \E a \in [filename : ApiNames, size : ApiSizes, body : ApiBodies] :
          LET file_ext == lower(splitext(a.filename))
          IN  /\ args' = [args EXCEPT ![r] = a]
              /\ IF file_ext \notin supported_extensions
                 THEN /\ response' = [response EXCEPT ![r] = HTTPException(400,
                                         Msg("Unsupported file type. Supported types: .pdf, .docx, .doc, .xlsx, .xls, .txt, .ppt, .pptx"))]
                      /\ pc' = [pc EXCEPT ![r] = "responded"]
                      /\ UNCHANGED <<upload, tick>>
                 ELSE /\ upload' = [upload EXCEPT ![r] =
                                       [file_ext |-> file_ext, file_size |-> 0,
                                        unread |-> a.size, temp_file |-> TRUE,
                                        mtime |-> tick + 1, pending |-> FALSE,
                                        file_path |-> NoPath]]
                      /\ tick' = tick + 1
                      /\ pc' = [pc EXCEPT ![r] = "read"]
                      /\ response' = response
    /\ UNCHANGED <<state, result, trace, calls, prompts, input, world, output, files, done>>

\* One turn of the loop of an upload, from one await of file.read to the
\* next.  A chunk written reaches the temporary file at once or, when it is
\* short, may stay in the buffer of the writer until the file is closed.
ApiUploadRead(r) ==
    /\ pc[r] = "read"
    /\ LET u == upload[r]
           chunk == IF u.unread < chunk_size THEN u.unread ELSE chunk_size
           file_size == u.file_size + chunk
       IN  IF chunk = 0
           THEN /\ pc' = [pc EXCEPT ![r] = "close"]
                /\ UNCHANGED <<upload, response, tick>>
           ELSE IF OverLimit(file_size)
           THEN /\ upload' = [upload EXCEPT ![r] = [u EXCEPT !.file_size = file_size,
                                                             !.unread = @ - chunk,
                                                             !.temp_file = FALSE]]
                /\ response' = [response EXCEPT ![r] =
                                   HTTPException(400, Msg("File size exceeds 10MB limit"))]
                /\ pc' = [pc EXCEPT ![r] = "responded"]
                /\ tick' = tick
           ELSE \E buffered \in {FALSE, chunk < chunk_size} :
                    /\ upload' = [upload EXCEPT ![r] =
                                     [u EXCEPT !.file_size = file_size,
                                               !.unread = @ - chunk,
                                               !.pending = buffered,
                                               !.mtime = IF buffered THEN @ ELSE tick + 1]]
                    /\ tick' = IF buffered THEN tick ELSE tick + 1
                    /\ pc' = [pc EXCEPT ![r] = "read"]
                    /\ response' = response
    /\ UNCHANGED <<state, result, trace, calls, prompts, args, input, world, output, files, done>>

\* The upload failed after its file was stored: the except clause removes
\* the file of that path, whoever stored it, and answers 500.
ApiUploadFailed(r, name, error_message) ==
    /\ files' = Removed(Moved(r, name), name)
    /\ response' = [response EXCEPT ![r] =
                       HTTPException(500, UploadErrorDetail(error_message, UPLOAD_DIR \o name))]
    /\ done' = done

\* The content is validated and the response made.
ApiUploadValidated(r, name, text) ==
    IF text = <<>> \/ IsBlank(text) \/ StrLen(text) < MinUploadContent
    THEN ApiUploadFailed(r, name,
            Msg("The document appears to be empty or contains no extractable text content"))
    ELSE /\ files' = Moved(r, name)
         /\ response' = [response EXCEPT ![r] = UploadResponse(name, Preview(text), text)]
         /\ done' = Append(done, r)

\* The direct extraction gave content, or raised.
ApiUploadExtracted(r, name, content) ==
    IF content.ok THEN ApiUploadValidated(r, name, content.val)
    ELSE ApiUploadFailed(r, name, content.exc.msg)

\* run returned text for the stored file.
ApiUploadRan(r, name, text) ==
    IF AfterRun(text) = "direct"
    THEN ApiUploadExtracted(r, name,
            DirectContent(process_document([file_path |-> UPLOAD_DIR \o name],
                                           args[r].body).state))
    ELSE ApiUploadValidated(r, name, text)

\* The rest of an upload, which awaits nothing: the temporary file is
\* closed, named, moved into the upload directory, run through the
\* pipeline, and the request is answered.
ApiUploadStore(r) ==
    /\ pc[r] = "close"
    /\ \E now \in Clock :
          LET name == unique_filename(args[r].filename, upload[r].file_ext, now)
          IN  /\ upload' = [upload EXCEPT ![r] =
                               [@ EXCEPT !.temp_file = FALSE, !.pending = FALSE,
                                         !.mtime = IF upload[r].pending THEN tick + 1 ELSE @,
                                         !.file_path = UPLOAD_DIR \o name]]
              /\ ApiUploadRan(r, name,
                              ApiRun(UploadQuestion, UPLOAD_DIR \o name, NoText, TRUE,
                                     args[r].body).result)
    /\ tick' = IF upload[r].pending THEN tick + 1 ELSE tick
    /\ pc' = [pc EXCEPT ![r] = "responded"]
    /\ UNCHANGED <<state, result, trace, calls, prompts, args, input, world, output>>

\* A mistaken choice of the file: any file of the upload directory.
Latest_any(dir) == DOMAIN dir

\* The files of the upload directory no other is newer than.
Latest(dir) == {n \in DOMAIN dir : \A m \in DOMAIN dir : dir[m].mtime <= dir[n].mtime}

\* The chat was answered by a run of the workflow.  What is kept of it:
\* source, the file it read, or "content"; owner, the upload that stored
\* that file; listed, whether os.listdir was called; served, the uploads
\* answered with a success until then.
ChatAnswered(c, run, source, owner, listed) ==
    /\ response' = [response EXCEPT ![c] = ChatResponse(run.result)]
    /\ upload' = [upload EXCEPT ![c] =
                     [source |-> source, owner |-> owner, listed |-> listed,
                      served |-> done, prompts |-> run.prompts, calls |-> run.calls]]

ChatRefused(c, status_code, detail, listed) ==
    /\ response' = [response EXCEPT ![c] = HTTPException(status_code, detail)]
    /\ upload' = [upload EXCEPT ![c] =
                     [source |-> "none", owner |-> "none", listed |-> listed,
                      served |-> done, prompts |-> <<>>, calls |-> <<>>]]

\* The branch of chat for a request with content.
ChatWithContent(c, question, content) ==
    IF content = <<>>
    THEN ChatRefused(c, 400,
            Msg("The document content is empty. Please try uploading the file again."), FALSE)
    ELSE IF StrLen(content) < MinChatContent
    THEN ChatRefused(c, 500,
            Cat(Msg("Error processing content: "),
                Msg("The document content is too short to process. Please upload a valid document.")),
            FALSE)
    ELSE ChatAnswered(c, ApiRun(question, NoPath, content, FALSE, None),
                      "content", "none", FALSE)

\* The branch of chat for a request without content: the newest file of
\* the upload directory.
ChatWithFile(c, question) ==
    IF DOMAIN files = {}
    THEN ChatRefused(c, 400, Msg("No document has been uploaded"), TRUE)
    ELSE \E latest_file \in Latest(files) :
             ChatAnswered(c, ApiRun(question, UPLOAD_DIR \o latest_file, NoText, TRUE,
                                    files[latest_file].body),
                          latest_file, files[latest_file].owner, TRUE)

\* A chat request, which awaits nothing.
ApiChat(c) ==
    /\ pc[c] = "wait"
    /\ \E a \in [question : ChatQuestions, file_info : FileInfos] :
          /\ args' = [args EXCEPT ![c] = a]
          /\ IF a.question = <<>>
             THEN ChatRefused(c, 400, Msg("Question is required"), FALSE)
             ELSE IF a.file_info # None /\ Truthy(a.file_info, "content")
             THEN ChatWithContent(c, a.question, Strip(a.file_info["content"]))
             ELSE ChatWithFile(c, a.question)
    /\ pc' = [pc EXCEPT ![c] = "responded"]
    /\ UNCHANGED <<state, result, trace, calls, prompts, input, world, output, files, tick, done>>

ApiNext ==
    \/ \E r \in Uploads : ApiUploadBegin(r)
    \/ \E r \in Uploads : ApiUploadRead(r)
    \/ \E r \in Uploads : ApiUploadStore(r)
    \/ \E c \in Chats : ApiChat(c)

SpecApi == ApiInit /\ [][ApiNext]_vars

(***************************************************************************)
(* Properties of process_document, checked under SpecPD.                   *)
(***************************************************************************)

Called == pc = "called"

\* The keys of a state that hold something: an absent key and an empty value
\* both count as unset.
Populated(st, k) == k \in DOMAIN st /\ st[k] # <<>>

\* The names under which the extractors appear in the log of calls.
Extractors ==
    {"_process_excel", "_process_docx", "_process_doc", "_process_pdf", "_process_text",
     "_process_powerpoint"}

\* The extractors a call invoked, in order.
Invoked(log) == SelectSeq(log, LAMBDA c : c \in Extractors)

\* How many times a call appears in a log of calls.
Count(log, name) == Len(SelectSeq(log, LAMBDA c : c = name))

\* The call dispatched on the file: no pre-processed text, and a file path.
ByFile(st) == ~Truthy(st, "pre_processed_content") /\ Truthy(st, "file_path")

\* C1: process_document never raises: whatever the extractor it delegates
\* to raises, it returns a state whose error field holds a message, the
\* message of the exception after a fixed prefix.
C1_NeverRaises ==
    Called =>
        /\ ~output.raised
        /\ ProcessBody(input, world).raised =>
              /\ Populated(output.state, "error")
              /\ output.state["error"] =
                    Cat(Msg("Error processing document: "), ProcessBody(input, world).exc.msg)
              /\ \A k \in DOMAIN input : output.state[k] = input[k]

\* An extractor was invoked and raised, and the call returned an error.
C1_Witness ==
    /\ Called
    /\ Invoked(output.calls) # <<>>
    /\ ProcessBody(input, world).raised
    /\ ~output.raised
    /\ Populated(output.state, "error")

\* Two texts are the same but for the case of their letters.
SameButCase(a, b) ==
    /\ Len(a) = Len(b)
    /\ \A i \in 1..Len(a) :
          \/ a[i] = b[i]
          \/ \E k \in 1..Len(UpperCase) :
                {a[i], b[i]} = {UpperCase[k], LowerCase[k]}

\* The routing table: the extractor of each supported extension.
Route ==
    (Ext_xlsx :> "_process_excel") @@ (Ext_xls :> "_process_excel") @@
    (Ext_docx :> "_process_docx") @@ (Ext_doc :> "_process_doc") @@
    (Ext_pdf :> "_process_pdf") @@ (Ext_txt :> "_process_text") @@
    (Ext_ppt :> "_process_powerpoint") @@ (Ext_pptx :> "_process_powerpoint")

\* C5: the extractor is chosen by the extension of the file whatever the
\* case of its letters, and exactly one extractor is invoked per call.
C5_RoutedByExtension ==
    Called /\ ByFile(input) =>
        \A e \in DOMAIN Route :
            SameButCase(splitext(input["file_path"]), e) =>
                Invoked(output.calls) = <<Route[e]>>

\* A file whose extension is written in mixed case reached its extractor.
C5_Witness ==
    /\ Called
    /\ ByFile(input)
    /\ splitext(input["file_path"]) = <<".", "P", "p", "t", "X">>
    /\ Invoked(output.calls) = <<"_process_powerpoint">>

\* The extension of the file is none of the eight supported ones.
Unsupported(file_path) ==
    \A e \in DOMAIN Route : ~SameButCase(splitext(file_path), e)

\* C6: for a file whose extension is outside the supported ones, or that
\* has none, the call returns the unsupported-format error, invokes no
\* extractor and leaves documents and metadata unset.
C6_UnsupportedExtension ==
    Called /\ ByFile(input) /\ Unsupported(input["file_path"]) =>
        /\ ~output.raised
        /\ output.state =
              Merge(input,
                    [error |-> Cat(Msg("Error processing document: "),
                                   Cat(Msg("Unsupported file type: "),
                                       Lit(lower(splitext(input["file_path"])))))])
        /\ output.calls = <<>>
        /\ "documents" \notin DOMAIN output.state
        /\ "metadata" \notin DOMAIN output.state

\* A file with an unsupported extension and a file with none were refused.
C6_Witness ==
    /\ Called
    /\ ByFile(input)
    /\ Unsupported(input["file_path"])
    /\ splitext(input["file_path"]) \in {<<>>, <<".", "c", "s", "v">>}
    /\ Populated(output.state, "error")
    /\ output.calls = <<>>

\* The one block made of the pre-processed text, with the given format tag.
OneBlock(st, tag) ==
    /\ "documents" \in DOMAIN st
    /\ Len(st["documents"]) = 1
    /\ st["documents"][1].page_content = st["pre_processed_content"]
    /\ st["documents"][1].metadata.file_type = tag

\* C7 as stated: with a non-empty pre-processed text the documents are one
\* block with that text whose format tag is pre_processed, and no extractor
\* is invoked, with or without a file path.
C7_TaggedPreProcessed ==
    Called /\ Truthy(input, "pre_processed_content") =>
        /\ ~output.raised
        /\ OneBlock(output.state, "pre_processed")
        /\ Invoked(output.calls) = <<>>

\* C7: with a non-empty pre-processed text the documents are one block with
\* that text, whose source is pre_processed and whose format tag is text,
\* and no extractor is invoked, with or without a file path.
C7_PreProcessedBlock ==
    Called /\ Truthy(input, "pre_processed_content") =>
        /\ ~output.raised
        /\ OneBlock(output.state, "text")
        /\ output.state["documents"][1].metadata.source = "pre_processed"
        /\ output.state["metadata"].file_type = "text"
        /\ "error" \notin DOMAIN output.state
        /\ Invoked(output.calls) = <<>>
        /\ output.calls = <<>>

\* A pre-processed text came with the path of a supported file.
C7_Witness ==
    /\ Called
    /\ Truthy(input, "pre_processed_content")
    /\ Truthy(input, "file_path")
    /\ ~Unsupported(input["file_path"])
    /\ OneBlock(output.state, "text")

\* The call succeeded: it returned and set no error.
Succeeded == Called /\ ~output.raised /\ "error" \notin DOMAIN output.state

\* The sum of the lengths of the texts of the blocks.
RECURSIVE TotalLength(_)
TotalLength(documents) ==
    IF documents = <<>> THEN 0
    ELSE StrLen(documents[1].page_content) + TotalLength(Tail(documents))

\* C8: when the call succeeds, by any extractor or from a pre-processed
\* text, content_length of the metadata is the sum of the lengths of the
\* texts of the returned blocks (for a PDF, of the cleaned texts).
C8_ContentLength ==
    Succeeded =>
        /\ "metadata" \in DOMAIN output.state
        /\ "documents" \in DOMAIN output.state
        /\ output.state["metadata"].content_length = TotalLength(output.state["documents"])

\* A PDF of two pages was read, and the clean-up shortened its text.
C8_Witness ==
    /\ Succeeded
    /\ ByFile(input)
    /\ output.state["metadata"].file_type = "pdf"
    /\ Len(output.state["documents"]) = 2
    /\ world.kind = "pdf"
    /\ output.state["metadata"].content_length
          < SumLen([i \in 1..Len(world.pages) |-> [page_content |-> world.pages[i].val]])

\* C9 as stated: when the call succeeds the documents are not empty, a
\* workbook in which the library finds no sheet included.
C9_DocumentsNotEmpty ==
    Succeeded =>
        /\ "documents" \in DOMAIN output.state
        /\ output.state["documents"] # <<>>

(***************************************************************************)
(* Properties of the extractors, checked under SpecPD.                     *)
(***************************************************************************)

\* The call dispatched on a file whose extension routes to the extractor.
RoutedTo(extractor) ==
    /\ Called
    /\ ByFile(input)
    /\ \E e \in DOMAIN Route :
          SameButCase(splitext(input["file_path"]), e) /\ Route[e] = extractor

\* The literal pieces of the error of the returned state.
ErrorLiterals ==
    IF "error" \in DOMAIN output.state
    THEN {output.state["error"][i].c : i \in 1..Len(output.state["error"])}
    ELSE {}

\* The text is not empty and not white space only.
SomeText(s) == \E i \in 1..Len(s) : s[i].n > 0 /\ s[i].c # " " /\ s[i].c # "\n"

NoTextInPdf == "No text content found in PDF. The PDF might be scanned or protected."

\* Every page of the PDF was read and gave an empty or blank text.
AllPagesBlank ==
    /\ PdfReader(world).ok
    /\ \A i \in 1..Len(pdf_pages(world)) :
          pdf_pages(world)[i].ok /\ ~SomeText(pdf_pages(world)[i].val)

\* Every page of the PDF was read and one at least gave text.
SomePageHasText ==
    /\ PdfReader(world).ok
    /\ \A i \in 1..Len(pdf_pages(world)) : pdf_pages(world)[i].ok
    /\ \E i \in 1..Len(pdf_pages(world)) : SomeText(pdf_pages(world)[i].val)

\* C15: for a PDF whose pages all give blank text the converter is tried,
\* once, before the extractor fails; the failure "No text content found in
\* PDF" comes only after the converter was tried and raised or gave blank
\* text; the converter is never tried when a page gave text.
C15_PdfFallback ==
    RoutedTo("_process_pdf") =>
        /\ AllPagesBlank => Count(output.calls, "pypandoc.convert_file") = 1
        /\ AllPagesBlank /\ convert_file(world).ok /\ SomeText(convert_file(world).val) =>
              /\ "error" \notin DOMAIN output.state
              /\ Len(output.state["documents"]) = 1
              /\ output.state["documents"][1].metadata.extraction_method = "pypandoc"
        /\ NoTextInPdf \in ErrorLiterals =>
              /\ AllPagesBlank
              /\ Count(output.calls, "pypandoc.convert_file") = 1
              /\ output.calls[Len(output.calls)] = "pypandoc.convert_file"
              /\ ~convert_file(world).ok \/ ~SomeText(convert_file(world).val)
        /\ SomePageHasText => Count(output.calls, "pypandoc.convert_file") = 0

\* A PDF of blank pages failed after the converter raised.
C15_Witness ==
    /\ RoutedTo("_process_pdf")
    /\ world.kind = "pdf"
    /\ Len(world.pages) = 2
    /\ AllPagesBlank
    /\ ~convert_file(world).ok
    /\ NoTextInPdf \in ErrorLiterals
    /\ Count(output.calls, "pypandoc.convert_file") = 1

\* The starts of the three methods of _process_powerpoint, as logged.
MethodStarts ==
    {"convert_file:format", "NamedTemporaryFile", "NamedTemporaryFile:failed",
     "convert_file:auto"}

\* The number of the method a logged start belongs to.
MethodOf(c) ==
    IF c = "convert_file:format" THEN 1 ELSE IF c = "convert_file:auto" THEN 3 ELSE 2

\* The methods attempted, in order.
Methods == LET m == SelectSeq(output.calls, LAMBDA c : c \in MethodStarts)
           IN  [i \in 1..Len(m) |-> MethodOf(m[i])]

\* The text each method yields: none when it raised.
Yield1 == IF convert_direct(world).ok THEN convert_direct(world).val ELSE <<>>

Yield2 ==
    LET o == subprocess_conversion(world)
    IN  IF o.mktemp /\ o.run /\ o.read.ok THEN o.read.val ELSE <<>>

Yield3 == IF convert_auto(world).ok THEN convert_auto(world).val ELSE <<>>

\* The one document of the returned state is the given text.
Holds(text) ==
    /\ "error" \notin DOMAIN output.state
    /\ Len(output.state["documents"]) = 1
    /\ output.state["documents"][1].page_content = text

\* The message holds the path, character by character.
Names(msg, path) ==
    LET l == Lit(path)
    IN  \E i \in 1..(Len(msg) - Len(l) + 1) : SubSeq(msg, i, i + Len(l) - 1) = l

\* The converter was found and the methods were started.
MethodsStarted == RoutedTo("_process_powerpoint") /\ Methods # <<>>

\* C16: once the converter is found, the methods are tried in the order
\* direct conversion, subprocess through a temporary file, auto-detection;
\* the result is that of the first method that yields text that is not
\* blank, a later method is tried only after every earlier one raised or
\* yielded blank text, and when all three do the error names the file.
C16_StrategyOrder ==
    MethodsStarted =>
        /\ Methods \in {<<1>>, <<1, 2>>, <<1, 2, 3>>}
        /\ SomeText(Yield1) => Methods = <<1>> /\ Holds(Yield1)
        /\ ~SomeText(Yield1) /\ SomeText(Yield2) => Methods = <<1, 2>> /\ Holds(Yield2)
        /\ ~SomeText(Yield1) /\ ~SomeText(Yield2) /\ SomeText(Yield3) =>
              Methods = <<1, 2, 3>> /\ Holds(Yield3)
        /\ ~SomeText(Yield1) /\ ~SomeText(Yield2) /\ ~SomeText(Yield3) =>
              /\ Methods = <<1, 2, 3>>
              /\ Populated(output.state, "error")
              /\ "documents" \notin DOMAIN output.state
              /\ Names(output.state["error"], input["file_path"])

\* The first two methods failed, one raising and one yielding blank text,
\* and the third gave the text.
C16_Witness ==
    /\ MethodsStarted
    /\ world.kind = "ppt"
    /\ ~convert_direct(world).ok
    /\ Yield2 # <<>>
    /\ ~SomeText(Yield2)
    /\ Methods = <<1, 2, 3>>
    /\ SomeText(Yield3)
    /\ Holds(Yield3)

\* The engines attempted, in order.
Engines == SelectSeq(output.calls, LAMBDA c : c \in {"read_excel:openpyxl", "read_excel:xlrd"})

\* The returned documents are the sheets of the workbook, one each, in order.
OnePerSheet(wb) ==
    /\ "error" \notin DOMAIN output.state
    /\ Len(output.state["documents"]) = Len(wb)
    /\ \A i \in 1..Len(wb) : output.state["documents"][i].metadata.sheet = wb[i].name

\* The primary attempt failed for a missing dependency: openpyxl is not
\* installed, or the engine raised ImportError.
MissingDependency ==
    \/ ~find_openpyxl(world)
    \/ ~read_excel(world, "openpyxl").ok /\ read_excel(world, "openpyxl").exc.type = "ImportError"

PrimaryFailed == ~find_openpyxl(world) \/ ~read_excel(world, "openpyxl").ok

\* C17 as stated: the primary engine is tried first; on every failure of
\* the primary attempt the alternate engine is tried exactly once; the
\* extractor fails only after both engines were attempted; on success there
\* is one block per sheet in the order of the library.
C17_AlternateOnEveryFailure ==
    RoutedTo("_process_excel") =>
        /\ PrimaryFailed => Count(output.calls, "read_excel:xlrd") = 1
        /\ "error" \in DOMAIN output.state =>
              Engines = <<"read_excel:openpyxl", "read_excel:xlrd">>
        /\ ~PrimaryFailed => Engines = <<"read_excel:openpyxl">>
                             /\ OnePerSheet(read_excel(world, "openpyxl").val)

\* C17: the primary engine is tried first; when the primary attempt fails
\* for a missing dependency (ImportError) the extractor fails at once, on
\* every other failure of it the alternate engine is tried exactly once;
\* the extractor fails only then or after both engines failed; on success
\* there is one block per sheet in the order of the library.
C17_AlternateEngine ==
    RoutedTo("_process_excel") =>
        /\ Engines \in {<<>>, <<"read_excel:openpyxl">>,
                        <<"read_excel:openpyxl", "read_excel:xlrd">>}
        /\ Engines = <<>> <=> ~find_openpyxl(world)
        /\ PrimaryFailed /\ ~MissingDependency =>
              Engines = <<"read_excel:openpyxl", "read_excel:xlrd">>
        /\ MissingDependency =>
              Count(output.calls, "read_excel:xlrd") = 0 /\ "error" \in DOMAIN output.state
        /\ "error" \in DOMAIN output.state =>
              \/ MissingDependency
              \/ /\ Engines = <<"read_excel:openpyxl", "read_excel:xlrd">>
                 /\ ~read_excel(world, "xlrd").ok
        /\ ~PrimaryFailed => Engines = <<"read_excel:openpyxl">>
                             /\ OnePerSheet(read_excel(world, "openpyxl").val)
        /\ PrimaryFailed /\ ~MissingDependency /\ read_excel(world, "xlrd").ok =>
              OnePerSheet(read_excel(world, "xlrd").val)

\* The primary engine raised and the alternate one returned two sheets.
C17_Witness ==
    /\ RoutedTo("_process_excel")
    /\ PrimaryFailed
    /\ ~MissingDependency
    /\ read_excel(world, "xlrd").ok
    /\ Len(read_excel(world, "xlrd").val) = 2
    /\ Engines = <<"read_excel:openpyxl", "read_excel:xlrd">>
    /\ OnePerSheet(read_excel(world, "xlrd").val)

\* The logged starts of every strategy of a fallback chain.
StrategyCalls ==
    {"read_excel:openpyxl", "read_excel:xlrd", "PdfReader", "pypandoc.convert_file",
     "convert_file:format", "NamedTemporaryFile", "NamedTemporaryFile:failed",
     "subprocess.run", "subprocess.run:failed", "convert_file:auto"}

\* C18: every run of an extractor ends either extracted, with documents and
\* metadata and no error, or failed, with an error and neither of them; and
\* every strategy of a fallback chain is attempted at most once in a run.
C18_OneOutcome ==
    Called /\ ByFile(input) /\ ~Unsupported(input["file_path"]) =>
        /\ ~output.raised
        /\ Len(Invoked(output.calls)) = 1
        /\ output.calls[1] \in Extractors
        /\ \/ /\ "error" \notin DOMAIN output.state
              /\ "documents" \in DOMAIN output.state
              /\ "metadata" \in DOMAIN output.state
           \/ /\ Populated(output.state, "error")
              /\ "documents" \notin DOMAIN output.state
              /\ "metadata" \notin DOMAIN output.state
        /\ \A c \in StrategyCalls : Count(output.calls, c) <= 1
        /\ Count(output.calls, "NamedTemporaryFile")
              + Count(output.calls, "NamedTemporaryFile:failed") <= 1
        /\ Count(output.calls, "subprocess.run")
              + Count(output.calls, "subprocess.run:failed") <= 1

\* A presentation failed after each of its three methods was tried, the
\* converter process having failed.
C18_Witness ==
    /\ RoutedTo("_process_powerpoint")
    /\ Methods = <<1, 2, 3>>
    /\ Count(output.calls, "subprocess.run:failed") = 1
    /\ Populated(output.state, "error")

(***************************************************************************)
(* Properties of answer_question, checked under SpecAQ.                    *)
(***************************************************************************)

Asked == pc = "asked"

\* The documents answer_question was handed, and their concatenated text.
InputDocuments == IF "documents" \in DOMAIN input THEN input["documents"] ELSE <<>>

InputContent == Content(InputDocuments)

\* The text is made of white space only (the empty text included).
OnlySpaces(s) == \A i \in 1..Len(s) : s[i].c = " " \/ s[i].c = "\n"

\* p is the beginning of s.
IsPrefix(p, s) ==
    /\ Len(p) <= Len(s)
    /\ \A i \in 1..Len(p) :
          /\ p[i].c = s[i].c
          /\ IF i < Len(p) THEN p[i].n = s[i].n ELSE p[i].n <= s[i].n

\* C11: in every call of the LLM the context is at most 25000 characters
\* long: the whole content when that is at most 25000 characters long, its
\* first 25000 characters otherwise.
C11_ContextBounded ==
    Asked =>
        /\ Len(output.prompts) = Count(output.calls, "chain.invoke")
        /\ \A i \in 1..Len(output.prompts) :
              LET context == output.prompts[i].context
              IN  /\ StrLen(context) <= 25000
                  /\ IF StrLen(InputContent) <= 25000
                     THEN context = InputContent
                     ELSE StrLen(context) = 25000 /\ IsPrefix(context, InputContent)

\* The LLM was called on a content of 25001 characters.
C11_Witness ==
    /\ Asked
    /\ Len(output.prompts) = 1
    /\ StrLen(InputContent) = 25001
    /\ StrLen(output.prompts[1].context) = 25000

\* C12: when the documents are present and their concatenated text is empty
\* or white space only, the answer is the fixed empty-document message and
\* the LLM is neither constructed nor called, whatever the question, the
\* credential and the client.
C12_BlankContent ==
    Asked /\ InputDocuments # <<>> /\ OnlySpaces(InputContent) =>
        /\ ~output.raised
        /\ output.state = Merge(input, [answer |-> EmptyDocumentAnswer])
        /\ output.calls = <<>>
        /\ output.prompts = <<>>

\* A blank document met an ordinary question, a credential and a working client.
C12_Witness ==
    /\ Asked
    /\ InputDocuments # <<>>
    /\ OnlySpaces(InputContent)
    /\ world.key # <<>>
    /\ world.llm.construct.ok
    /\ ~IsRawContentQuestion(input["question"])
    /\ output.state["answer"] = EmptyDocumentAnswer

\* The call of the LLM is due: documents with text, a credential, and a
\* question that is no raw-content phrase.
CallDue ==
    /\ InputDocuments # <<>>
    /\ ~OnlySpaces(InputContent)
    /\ world.key # <<>>
    /\ ~IsRawContentQuestion(input["question"])

\* C13 as stated: at most one call of the LLM; exactly one when the content
\* is not blank, a credential is set and the question is no raw-content
\* phrase; none otherwise.
C13_OneCallWhenDue ==
    Asked =>
        /\ Count(output.calls, "chain.invoke") <= 1
        /\ CallDue => Count(output.calls, "chain.invoke") = 1
        /\ ~CallDue => Count(output.calls, "chain.invoke") = 0

\* C13: at most one call of the LLM and no second call after a failed one;
\* exactly one when the content is not blank, a credential is set, the
\* question is no raw-content phrase and the client was constructed; none
\* when the documents are empty, the content is blank, the credential is
\* missing, the question is a raw-content phrase or the construction of the
\* client raised.
C13_OneCall ==
    Asked =>
        /\ Count(output.calls, "chain.invoke") <= 1
        /\ Len(output.prompts) = Count(output.calls, "chain.invoke")
        /\ Count(output.calls, "ChatGroq") <= 1
        /\ CallDue /\ world.llm.construct.ok => Count(output.calls, "chain.invoke") = 1
        /\ ~CallDue \/ ~world.llm.construct.ok => Count(output.calls, "chain.invoke") = 0

\* The one call of the LLM raised, and no other was made.
C13_Witness ==
    /\ Asked
    /\ CallDue
    /\ world.llm.construct.ok
    /\ ~world.llm.invoke.ok
    /\ Count(output.calls, "chain.invoke") = 1

\* The diagnosis by the first word the error text holds, in the stated order.
FirstMatch(msg) ==
    LET order == <<"openpyxl", "xlrd", "excel", "pandoc", "powerpoint">>
        hits == {i \in 1..Len(order) : Mentions(msg, order[i])}
    IN  IF hits = {} THEN "generic" ELSE order[CHOOSE i \in hits : \A j \in hits : i <= j]

\* The opening of each fixed diagnostic message.
Opening(kind) ==
    CASE kind = "openpyxl" ->
            "I encountered an error while processing your Excel file. The server is missing the 'openpyxl' package which is required for Excel support. Please contact the administrator to install this package by running: pip install openpyxl"
      [] kind = "xlrd" ->
            "I encountered an error while processing your Excel file. The server is missing packages required for Excel support. Please contact the administrator to install the necessary packages by running: pip install openpyxl xlrd"
      [] kind = "excel" ->
            "I encountered an error while processing your Excel file. Please make sure your Excel file is not password-protected or corrupted. The specific error was: "
      [] kind = "pandoc" ->
            "I encountered an error while processing your PowerPoint file. The server is missing Pandoc which is required for PowerPoint support. Pandoc is not a Python package but a separate program that needs to be installed on the system. Please ask the administrator to install Pandoc from https://pandoc.org/installing.html"
      [] kind = "powerpoint" ->
            "I encountered an error while processing your PowerPoint file. Please make sure your PowerPoint file is not password-protected or corrupted. The specific error was: "
      [] OTHER ->
            "I apologize, but I encountered an error while processing your question: "

\* The answer begins with the fixed message of the error text's first match.
Diagnosed(answer, msg) == answer # <<>> /\ answer[1].c = Opening(FirstMatch(msg))

\* C14 as stated: answer_question never raises; when the construction or the
\* call of the LLM raises the answer is the fixed message of the first match
\* of the error text in the order openpyxl, xlrd, excel, pandoc, powerpoint,
\* else the generic apology; and a missing credential yields the fixed
\* API-key message.
C14_Diagnosis ==
    Asked /\ InputDocuments # <<>> /\ ~OnlySpaces(InputContent) =>
        /\ ~output.raised
        /\ \A k \in DOMAIN input : output.state[k] = input[k]
        /\ ~world.llm.construct.ok /\ world.key # <<>> =>
              Diagnosed(output.state["answer"], world.llm.construct.exc.msg)
        /\ Count(output.calls, "chain.invoke") = 1 /\ ~world.llm.invoke.ok =>
              Diagnosed(output.state["answer"], world.llm.invoke.exc.msg)
        /\ world.key = <<>> => output.state["answer"] = NoKeyAnswer

(***************************************************************************)
(* Properties of DocumentQAAgent.run and its workflow, checked under Spec. *)
(***************************************************************************)

\* C2: run always returns, and what it returns is a non-empty text: an
\* answer, or a message that says what went wrong.
C2_AlwaysAnswers ==
    /\ pc \in {"run", "returned", END} \cup Nodes
    /\ pc = "returned" <=> result # NoText
    /\ pc = "returned" => result # <<>> /\ StrLen(result) > 0

\* The LLM answered with an empty text and run returned its fixed message.
C2_Witness ==
    /\ pc = "returned"
    /\ trace = <<"process_document", "answer_question">>
    /\ "chain.invoke" \in {calls[i] : i \in 1..Len(calls)}
    /\ Populated(state, "documents")
    /\ "answer" \in DOMAIN state
    /\ state["answer"] = <<>>
    /\ result = NoAnswerGenerated

Pipeline == <<"process_document", "answer_question">>

\* C3: each invocation the engine completes runs process_document once,
\* then answer_question once, then ends; no stage is skipped or repeated,
\* answer_question runs also after process_document set an error, and the
\* step limit is never reached.
C3_TwoStages ==
    /\ Len(trace) <= Len(Pipeline)
    /\ trace = SubSeq(Pipeline, 1, Len(trace))
    /\ Len(trace) < recursion_limit
    /\ pc = "run" => trace = <<>>
    /\ pc \in Nodes => Len(trace) < Len(Pipeline) /\ pc = Pipeline[Len(trace) + 1]
    /\ pc = END => trace = Pipeline
    /\ result # Caught(Msg("Recursion limit of 50 reached"))

\* The workflow ended after process_document had set an error.
C3_Witness ==
    /\ pc = END
    /\ trace = Pipeline
    /\ Populated(state, "error")

\* C4 as stated: in the final state of an invocation at most one of answer
\* and error is populated.
C4_AnswerOrError ==
    pc = END => ~(Populated(state, "answer") /\ Populated(state, "error"))

\* C10 as stated: for a question that holds a trigger phrase and documents
\* whose content is not blank, answer_question sets the answer to the
\* content, cut to its first 8000 characters, and neither constructs nor
\* invokes the LLM, whatever the credential.
C10_RawContentBypass ==
    LET applies == /\ pc = END
                   /\ Populated(state, "documents")
                   /\ ~IsBlank(Content(state["documents"]))
                   /\ IsRawContentQuestion(state["question"])
    IN  applies =>
            /\ "answer" \in DOMAIN state
            /\ state["answer"] = Truncated(Content(state["documents"]), RawContentLimit)
            /\ \A i \in 1..Len(calls) : calls[i] \notin {"ChatGroq", "chain.invoke"}


(***************************************************************************)
(* Properties of upload_file, checked under SpecUp.                        *)
(***************************************************************************)

\* The request was answered.
Responded == pc = "responded"

\* The request was answered with an error.
Refused == Responded /\ response.status_code \in {400, 500}

\* The request was answered with a success.
Uploaded == Responded /\ response.status_code = 200

\* The pipeline was started on the file of the request.
PipelineRan == pc \in {"run", "answer", "direct", "validate"} \/ (upload # None /\ upload.ran)

\* C19: an upload whose body is over 10MB is refused with an error; at no
\* point of the request is there a file in the upload directory, the move
\* into it is never reached and the pipeline is never run.
C19_OversizeRefused ==
    args.size > MaxUploadSize =>
        /\ files = {}
        /\ pc # "move"
        /\ ~PipelineRan
        /\ Responded => Refused

\* C19: a body of one byte over the limit was read in chunks, ten of them
\* written to the temporary file, and refused at the eleventh.
C19_Witness ==
    /\ Responded
    /\ args.size = MaxUploadSize + 1
    /\ upload # None
    /\ upload.written = MaxUploadSize
    /\ upload.file_size = MaxUploadSize + 1
    /\ ~upload.temp_file
    /\ response = HTTPException(400, Msg("File size exceeds 10MB limit"))
    /\ files = {}

\* C20: the content of a successful upload is the whole text extracted
\* from the document, the concatenation of all its blocks, however long.
C20_FullContent ==
    Uploaded => response.content = Content(upload.documents)

\* The text holds a fixed message of the program or of a library: the
\* texts of documents are made of single characters.
HoldsMessage(text) == \E i \in 1..Len(text) : Len(text[i].c) > 1

\* The first stage of the pipeline failed on the uploaded file.
ExtractionFailed == upload # None /\ upload.ran /\ state # None /\ "error" \in DOMAIN state

\* The second stage of the pipeline gave a message for an answer.
DiagnosticAnswer ==
    /\ upload # None /\ upload.ran
    /\ state # None /\ "answer" \in DOMAIN state /\ HoldsMessage(state["answer"])

\* C25: when the extraction of the uploaded file fails or the answer stage
\* gives a diagnostic message, the upload is answered with an error and the
\* stored file is removed; a success never carries a message as content.
C25_FailureRefused ==
    /\ Responded /\ (ExtractionFailed \/ DiagnosticAnswer) => Refused /\ files = {}
    /\ Uploaded => ~HoldsMessage(response.content)


(***************************************************************************)
(* Further properties of DocumentQAAgent.run, checked under Spec.          *)
(***************************************************************************)

\* run was called with a file path, with a text.
GivenPath == args # None /\ args.file_path # NoPath /\ args.file_path # <<>>

GivenText ==
    args # None /\ args.pre_processed_content # NoText /\ args.pre_processed_content # <<>>

\* The workflow is about to start: state is the initial state run built.
Starting == pc = entry_point /\ trace = <<>>

\* C24: the initial state run hands to the workflow holds exactly one of
\* file_path and pre_processed_content, and that one is not empty; with both
\* arguments given it holds the text only; with neither the workflow is not
\* started.
C24_ExactlyOneInput ==
    /\ Starting =>
          /\ ("file_path" \in DOMAIN state) # ("pre_processed_content" \in DOMAIN state)
          /\ "file_path" \in DOMAIN state => state["file_path"] = args.file_path /\ GivenPath
          /\ "pre_processed_content" \in DOMAIN state =>
                state["pre_processed_content"] = args.pre_processed_content /\ GivenText
          /\ GivenPath /\ GivenText => DOMAIN state = {"question", "pre_processed_content"}
    /\ args # None /\ ~GivenPath /\ ~GivenText =>
          pc = "returned" /\ trace = <<>> /\ calls = <<>> /\ state = None

\* C24: run was given a path and a text and starts the workflow on the text.
C24_Witness ==
    /\ Starting
    /\ GivenPath
    /\ GivenText
    /\ DOMAIN state = {"question", "pre_processed_content"}

\* The first stage left an error in the state.
StageFailed == state # None /\ "error" \in DOMAIN state

\* The calls of the LLM client among the library calls made.
ClientCalls == SelectSeq(calls, LAMBDA c : c \in {"ChatGroq", "chain.invoke"})

\* C26: when process_document sets error, the workflow still goes on to
\* answer_question, which sets the fixed no-document answer without
\* constructing or calling the LLM; run then returns the error text, never
\* that answer.
C26_ErrorPrecedence ==
    StageFailed =>
        /\ trace = <<"process_document">> /\ pc # "returned" => pc = "answer_question"
        /\ Len(trace) = 2 =>
              /\ trace[2] = "answer_question"
              /\ state["answer"] = NoDocumentAnswer
              /\ ClientCalls = <<>>
              /\ prompts = <<>>
        /\ pc = "returned" /\ Len(trace) = 2 /\ result # Caught(LibraryError) =>
              /\ result = Cat(Msg("Error processing document: "), state["error"])
              /\ result # state["answer"]

\* C26: run returned the error text of a state that also holds the
\* no-document answer.
C26_Witness ==
    /\ pc = "returned"
    /\ StageFailed
    /\ trace = <<"process_document", "answer_question">>
    /\ state["answer"] = NoDocumentAnswer
    /\ result = Cat(Msg("Error processing document: "), state["error"])

\* Every field of the state before is in the state after, with its value,
\* but for the fields named.
Kept(before, after, but) ==
    \A k \in DOMAIN before \ but : k \in DOMAIN after /\ after[k] = before[k]

\* The fields the state after has and the state before had not.
Added(before, after) == DOMAIN after \ DOMAIN before

\* The workflow takes the step of the node and goes on with its state.
StageStep(node) ==
    pc = node /\ trace' = Append(trace, node) /\ pc' # "returned"

\* C29: each stage changes its own fields only.  process_document keeps
\* every field it was given (question, file_path, pre_processed_content)
\* and adds documents and metadata, or, on failure, error alone;
\* answer_question keeps every field (documents, metadata and error among
\* them) and adds answer alone.
C29_OwnFieldsOnly ==
    [][ /\ StageStep("process_document") =>
              /\ Kept(state, state', {})
              /\ Added(state, state') \in {{"documents", "metadata"}, {"error"}}
        /\ StageStep("answer_question") =>
              /\ Kept(state, state', {"answer"})
              /\ Added(state, state') = {"answer"} ]_vars

\* C29: both stages ran on a file; the state holds the question and path
\* run was given, the documents and metadata of the first stage and the
\* answer of the second.
C29_Witness ==
    /\ pc = END
    /\ trace = <<"process_document", "answer_question">>
    /\ DOMAIN state = {"question", "file_path", "documents", "metadata", "answer"}
    /\ state["question"] = args.question
    /\ state["file_path"] = args.file_path


(***************************************************************************)
(* Further properties of the extractors, checked under SpecPD.             *)
(***************************************************************************)

\* The temporary files of method 2 that were created and not removed.
TemporaryFilesLeft ==
    Count(output.calls, "NamedTemporaryFile") - Count(output.calls, "os.unlink")

\* C27: the temporary file of method 2 of _process_powerpoint does not
\* outlive the method: once the extractor returned, whether the converter
\* process succeeded or failed or the read-back failed, the file is gone.
C27_TemporaryFileRemoved ==
    RoutedTo("_process_powerpoint") => TemporaryFilesLeft = 0

\* The pages of the PDF that gave text.
PagesWithText == {i \in 1..Len(pdf_pages(world)) : SomeText(pdf_pages(world)[i].val)}

\* C28: when every page of a PDF was read and one at least gave text, the
\* returned blocks are the pages that gave text, one block a page, in
\* increasing order of page, each with its page number counted from 1 and
\* the cleaned text of that page; page_count is the number of all the pages
\* and document_count, the number of blocks, is not above it.
C28_PagesInOrder ==
    RoutedTo("_process_pdf") /\ SomePageHasText =>
        /\ "error" \notin DOMAIN output.state
        /\ LET docs == output.state["documents"]
               meta == output.state["metadata"]
           IN  /\ Len(docs) = Cardinality(PagesWithText)
               /\ {docs[k].metadata.page : k \in 1..Len(docs)} = PagesWithText
               /\ \A k, l \in 1..Len(docs) :
                     k < l => docs[k].metadata.page < docs[l].metadata.page
               /\ \A k \in 1..Len(docs) :
                     docs[k].page_content = CleanText(pdf_pages(world)[docs[k].metadata.page].val)
               /\ meta.page_count = Len(pdf_pages(world))
               /\ meta.document_count = Len(docs)
               /\ meta.document_count <= meta.page_count

\* C28: a PDF of two pages, the first blank: one block, of page 2.
C28_Witness ==
    /\ RoutedTo("_process_pdf")
    /\ SomePageHasText
    /\ Len(pdf_pages(world)) = 2
    /\ PagesWithText = {2}
    /\ Len(output.state["documents"]) = 1
    /\ output.state["documents"][1].metadata.page = 2
    /\ output.state["metadata"].page_count = 2


(***************************************************************************)
(* Properties of the server, checked under SpecApi.                        *)
(***************************************************************************)

\* The chat request c is handled in this step.
ChatStep(c) == pc[c] = "wait" /\ pc'[c] = "responded"

\* The request carries file_info.content; it carries one that is not empty.
ContentPresent(a) == a.file_info # None /\ "content" \in DOMAIN a.file_info

ContentGiven(a) == a.file_info # None /\ Truthy(a.file_info, "content")

\* The file is in the upload directory and no file of it is newer.
Newest(name) ==
    name \in DOMAIN files /\ \A m \in DOMAIN files : files[m].mtime <= files[name].mtime

\* What the LLM is handed as context for a document of one block of text.
ContextOf(text) == Truncated(Content(<<[page_content |-> text]>>), ContextLimit)

\* The chat was answered with a success, from one call of the LLM whose
\* context is the text.
AnsweredFrom(c, text) ==
    /\ response'[c].status_code = 200
    /\ Len(upload'[c].prompts) = 1
    /\ upload'[c].prompts[1].context = ContextOf(text)

\* The statement of C21 as it stands: content present, answered from it
\* without a look at the upload directory; content absent, answered from the
\* newest file, or refused when there is none.
C21_ContentPresent ==
    [][ \A c \in Chats : ChatStep(c) =>
            /\ ContentPresent(args'[c]) =>
                  /\ AnsweredFrom(c, args'[c].file_info["content"])
                  /\ ~upload'[c].listed
            /\ ~ContentPresent(args'[c]) =>
                  /\ upload'[c].listed
                  /\ IF DOMAIN files = {}
                     THEN response'[c].status_code = 400
                     ELSE /\ Newest(upload'[c].source)
                          /\ AnsweredFrom(c, files[upload'[c].source].body.text.val) ]_vars

\* C21: a chat request with a question and a content that is not empty
\* never lists the upload directory and runs no extractor; it is answered
\* from the stripped content when that has 50 characters or more and is
\* refused otherwise.  A chat request with a question and no content, or an
\* empty one, is answered from a file of the upload directory no other is
\* newer than, or refused with 400 when the directory holds no file.
C21_ChatSource ==
    [][ \A c \in Chats : ChatStep(c) /\ args'[c].question # <<>> =>
            /\ ContentGiven(args'[c]) =>
                  /\ ~upload'[c].listed
                  /\ Invoked(upload'[c].calls) = <<>>
                  /\ IF StrLen(Strip(args'[c].file_info["content"])) >= MinChatContent
                     THEN /\ upload'[c].source = "content"
                          /\ AnsweredFrom(c, Strip(args'[c].file_info["content"]))
                     ELSE /\ response'[c].status_code \in {400, 500}
                          /\ upload'[c].prompts = <<>>
            /\ ~ContentGiven(args'[c]) =>
                  /\ upload'[c].listed
                  /\ IF DOMAIN files = {}
                     THEN response'[c] = HTTPException(400, Msg("No document has been uploaded"))
                     ELSE /\ Newest(upload'[c].source)
                          /\ AnsweredFrom(c, files[upload'[c].source].body.text.val) ]_vars

\* C21: a chat was answered from its content while the upload directory
\* held a file, and without listing it.
C21_Witness ==
    /\ pc["c1"] = "responded"
    /\ response["c1"].status_code = 200
    /\ upload["c1"].source = "content"
    /\ ~upload["c1"].listed
    /\ upload["c1"].served # <<>>
    /\ DOMAIN files # {}

\* The upload stored its file in the upload directory.
Stored(r) == upload[r] # None /\ upload[r].file_path # NoPath

\* The upload was answered with a success.
Accepted(r) == pc[r] = "responded" /\ response[r].status_code = 200

\* C22: the uploads store their files under names that differ from one
\* another, so the file of an accepted upload stays in the upload directory
\* as that upload stored it: no other upload writes over it and the
\* clean-up of no other upload removes it.
C22_DistinctNames ==
    /\ \A r1, r2 \in Uploads :
          r1 # r2 /\ Stored(r1) /\ Stored(r2) => upload[r1].file_path # upload[r2].file_path
    /\ \A r \in Uploads :
          Accepted(r) =>
              /\ response[r].filename \in DOMAIN files
              /\ files[response[r].filename].owner = r

\* The chat was answered from a file of the upload directory.
AnsweredFromFile(c) ==
    pc[c] = "responded" /\ response[c].status_code = 200 /\ upload[c].source # "content"

\* The upload that was last answered with a success before the chat.
LastServed(c) == upload[c].served[Len(upload[c].served)]

====
